---- MODULE Spec2Model ----
(***************************************************************************)
(* Streaming ingestion and document normalization pipeline of the writing  *)
(* assistant (WritingForm.handleGenerate and its helpers).                 *)
(*                                                                         *)
(* A text is a sequence of lines (the text split at "\n"); the empty       *)
(* string is the empty sequence.  A line is a record [k, n]: k is the      *)
(* line's shape and n its getCharCount (characters left after              *)
(* stripMarkdown and whitespace removal).  Line shapes, with the concrete  *)
(* line each stands for:                                                   *)
(*   bl  ""                              blank line                        *)
(*   MK  "提示：当前内容为生成失败后的兜底内容（本地生成），仅供参考。"            *)
(*   R1  "1. 标题候选(3个)"   R2 "2. 内容大纲"   R3 "3. 正文"   R4 "4. 结尾总结" *)
(*   H1  "# 1. 标题候选(3个)" H2 "# 2. 内容大纲" H3 "# 3. 正文"                *)
(*   H4  "# 4. 结尾总结" (n = 6) or "# 4. 结尾总结或行动建议" (n = 12)          *)
(*   it  "1. <title>"        numbered item                                 *)
(*   hi  "## <title>"        item in canonical form                        *)
(*   tx  "<one sentence>。"   paragraph without any section keyword         *)
(*   hx  "## <one sentence>" paragraph turned into an item                 *)
(*   hM  "## 提示：…仅供参考。" marker line turned into a title item           *)
(*   hK  "## 提示：…仅供参考"  marker line cut at its full stop (outline)     *)
(*   hT  "## 标题候选(3个)"    hO  "## 内容大纲"                              *)
(***************************************************************************)
EXTENDS Integers, Sequences, FiniteSets, TLC

Line(k, n) == [k |-> k, n |-> n]

bl == Line("bl", 0)
MK == Line("MK", 30)
R1 == Line("R1", 10)
R2 == Line("R2", 6)
R3 == Line("R3", 4)
R4 == Line("R4", 6)
H1 == Line("H1", 10)
H2 == Line("H2", 6)
H3 == Line("H3", 4)
H4 == Line("H4", 6)
H4Fill == Line("H4", 12)
\* "# 4. Conclusion": the conclusion header of a document in English
E4 == Line("E4", 13)
it == Line("it", 10)
hi == Line("hi", 8)
\* a sentence that contains "未完" or "待续" before its end
wc == Line("wc", 20)

\* ---------------------------------------------------------------- strings

RECURSIVE SumN(_)
SumN(t) == IF t = <<>> THEN 0 ELSE Head(t).n + SumN(Tail(t))

\* getCharCount(text): the lines' counted characters; newlines are whitespace.
getCharCount(t) == SumN(t)

Front(t) == SubSeq(t, 1, Len(t) - 1)

RECURSIVE TrimStart(_)
TrimStart(t) == IF t # <<>> /\ Head(t) = bl THEN TrimStart(Tail(t)) ELSE t

RECURSIVE TrimEnd(_)
TrimEnd(t) == IF t # <<>> /\ t[Len(t)] = bl THEN TrimEnd(Front(t)) ELSE t

\* String.prototype.trim on a text whose lines carry no other whitespace.
Trim(t) == TrimEnd(TrimStart(t))

\* a + b for a text a that is empty or ends with a newline (every content
\* delta of the modelled streams ends with a newline).
StrCat(a, b) ==
  IF a = <<>> THEN b
  ELSE IF b = <<>> THEN a
  ELSE IF a[Len(a)] = bl THEN Front(a) \o b
  ELSE a \o b

\* `${a}\n\n${b}`: split at "\n" the empty string is one empty line.
JoinBlank(a, b) ==
  (IF a = <<>> THEN <<bl>> ELSE a) \o <<bl>> \o (IF b = <<>> THEN <<bl>> ELSE b)

\* lines.join("\n") of a slice: a single empty line is the empty string.
JoinLines(ls) == IF ls = <<bl>> THEN <<>> ELSE ls

\* lines.slice(a, b) with 0-based a (inclusive) and b (exclusive).
Slice(ls, a, b) == IF b <= a THEN <<>> ELSE SubSeq(ls, a + 1, b)

\* lines.findIndex(pred) over 0-based positions >= from; -1 when none.
FindFrom(ls, P(_), from) ==
  LET S == {i \in (from + 1)..Len(ls) : P(ls[i])}
  IN IF S = {} THEN -1 ELSE (CHOOSE i \in S : \A j \in S : i <= j) - 1

FindIndex(ls, P(_)) == FindFrom(ls, P, 0)

\* ------------------------------------------------------- line predicates

\* markers.some(m => l.includes(m))
LineHasMarker(l) == l.k \in {"MK", "hM"}

\* /^#\s*N\.\s+/.test(l)
IsTopN(l, n) ==
  \/ n = 1 /\ l.k = "H1"
  \/ n = 2 /\ l.k = "H2"
  \/ n = 3 /\ l.k = "H3"
  \/ n = 4 /\ l.k \in {"H4", "E4"}

\* /^#\s*\d+\.\s+/.test(l)
IsTopAny(l) == l.k \in {"H1", "H2", "H3", "H4", "E4"}

KwTitle(l) == l.k \in {"R1", "H1", "hT"}
KwOutline(l) == l.k \in {"R2", "H2", "hO"}
KwBody(l) == l.k \in {"R3", "H3"}
KwConclusion(l) == l.k \in {"R4", "H4", "E4"}

\* text.includes(marker) for any of the three markers
hasFallbackMarker(t) == \E i \in 1..Len(t) : LineHasMarker(t[i])

\* ------------------------------------------------------------ normalizers

\* The line normalizeTitleCandidates writes for a line inside the section:
\* "N. x" -> "## x" (mOld), other non-empty text not starting with "#" ->
\* "## text"; blank lines and lines starting with "#" stay.
TitleItem(l) ==
  CASE l.k = "it" -> Line("hi", l.n - 2)
    [] l.k = "R1" -> Line("hT", l.n - 2)
    [] l.k \in {"tx", "wc"} -> Line("hx", l.n)
    [] l.k \in {"px", "el"} -> Line("hx", l.n)
    [] l.k = "MK" -> Line("hM", l.n)
    [] OTHER -> l

RECURSIVE NtcScan(_, _)
NtcScan(ls, inSection) ==
  IF ls = <<>> THEN <<>>
  ELSE LET l == Head(ls) IN
    IF ~inSection
    THEN IF KwTitle(l) THEN <<l>> \o NtcScan(Tail(ls), TRUE)
         ELSE <<l>> \o NtcScan(Tail(ls), FALSE)
    ELSE IF KwOutline(l) \/ KwBody(l) \/ KwConclusion(l)
         THEN ls
         ELSE <<TitleItem(l)>> \o NtcScan(Tail(ls), TRUE)

normalizeTitleCandidates(text) == NtcScan(text, FALSE)

\* The line normalizeOutline writes for a line inside the section; the item
\* text is cut at its first full stop (trimOutlineText).
OutlineItem(l) ==
  CASE l.k = "it" -> Line("hi", l.n - 2)
    [] l.k = "R1" -> Line("hT", l.n - 2)
    [] l.k = "R2" -> Line("hO", l.n - 2)
    [] l.k \in {"tx", "wc"} -> Line("hx", l.n - 1)
    [] l.k \in {"px", "el"} -> Line("hx", l.n)
    [] l.k = "MK" -> Line("hK", l.n - 1)
    [] OTHER -> l

RECURSIVE NoScan(_, _)
NoScan(ls, inSection) ==
  IF ls = <<>> THEN <<>>
  ELSE LET l == Head(ls) IN
    IF ~inSection
    THEN IF KwOutline(l) THEN <<l>> \o NoScan(Tail(ls), TRUE)
         ELSE <<l>> \o NoScan(Tail(ls), FALSE)
    ELSE IF KwBody(l) \/ KwConclusion(l)
         THEN ls
         ELSE <<OutlineItem(l)>> \o NoScan(Tail(ls), TRUE)

normalizeOutline(text) == NoScan(text, FALSE)

\* normLine: a line whose text (after "#"s and an optional number) starts
\* with a section name becomes "# N. <title>", keeping an explicit number.
normLine(l) ==
  CASE l.k = "R1" -> Line("H1", l.n)
    [] l.k = "R2" -> Line("H2", l.n)
    [] l.k = "R3" -> Line("H3", l.n)
    [] l.k = "R4" -> Line("H4", l.n)
    [] l.k = "hT" -> Line("H1", l.n + 2)
    [] l.k = "hO" -> Line("H2", l.n + 2)
    [] OTHER -> l

IsTop1(l) == IsTopN(l, 1)
IsTop2(l) == IsTopN(l, 2)
IsTop3(l) == IsTopN(l, 3)
IsTop4(l) == IsTopN(l, 4)

normalizeTopSections(text) ==
  LET lines == [i \in 1..Len(text) |-> normLine(text[i])]
      idx1 == FindIndex(lines, IsTop1)
      idx2 == FindIndex(lines, IsTop2)
      idx3 == FindIndex(lines, IsTop3)
      idx4 == FindIndex(lines, IsTop4)
      nextTopAfter4 == FindFrom(lines, IsTopAny, idx4 + 1)
      endAfter4Abs == IF nextTopAfter4 # -1 THEN nextTopAfter4 ELSE Len(lines)
  IN IF idx1 # -1 /\ idx2 # -1 /\ idx3 # -1 /\ idx4 # -1
     THEN JoinLines(Slice(lines, idx1, idx2) \o Slice(lines, idx2, idx3)
                    \o Slice(lines, idx3, idx4) \o Slice(lines, idx4, endAfter4Abs))
     ELSE lines

RECURSIVE DedupeScan(_, _)
DedupeScan(ls, prevTop) ==
  IF ls = <<>> THEN <<>>
  ELSE LET l == Head(ls) IN
    IF IsTopAny(l)
    THEN IF prevTop = <<l>> THEN DedupeScan(Tail(ls), prevTop)
         ELSE <<l>> \o DedupeScan(Tail(ls), <<l>>)
    ELSE <<l>> \o DedupeScan(Tail(ls), prevTop)

\* prevTop is null (<<>>) or the last top-level header kept (<<line>>).
dedupeTopSections(text) == DedupeScan(text, <<>>)

stripDuplicateStructures(text) ==
  LET lines == text
      top1First == FindIndex(lines, IsTop1)
      top1Second == IF top1First = -1 THEN -1 ELSE FindFrom(lines, IsTop1, top1First + 1)
      top1Last == LET S == {i \in 1..Len(lines) : IsTop1(lines[i])}
                  IN IF S = {} THEN -1 ELSE (CHOOSE i \in S : \A j \in S : j <= i) - 1
      firstMarkerLine == FindIndex(lines, LineHasMarker)
      secondMarkerLine == IF firstMarkerLine = -1 THEN -1
                          ELSE FindFrom(lines, LineHasMarker, firstMarkerLine + 1)
      top1AtOrAfter == IF firstMarkerLine = -1 THEN -1
                       ELSE FindFrom(lines, IsTop1, firstMarkerLine)
      startStructIdx == IF top1AtOrAfter # -1 THEN top1AtOrAfter
                        ELSE IF top1Last # -1 THEN top1Last ELSE firstMarkerLine
      endIdx == IF secondMarkerLine # -1 THEN secondMarkerLine ELSE Len(lines)
  IN IF firstMarkerLine # -1
     THEN Trim(Slice(lines, startStructIdx, endIdx))
     ELSE IF top1Second = -1 THEN text
     ELSE Trim(Slice(lines, top1First, top1Second))

enforceFallbackShape(text) ==
  LET lines == text
      markerIdx == FindIndex(lines, LineHasMarker)
      \* langDetector: the modelled lines carry the Chinese section names
      markerText == MK
      findNextAbs(P(_), startAbs) ==
        IF startAbs = -1 THEN -1 ELSE FindFrom(lines, P, startAbs + 1)
      idx1 == FindIndex(lines, IsTop1)
      idx2 == findNextAbs(IsTop2, idx1)
      idx3 == findNextAbs(IsTop3, idx2)
      idx4 == findNextAbs(IsTop4, idx3)
      nextTopAfter4 == IF idx4 # -1 THEN FindFrom(lines, IsTopAny, idx4 + 1) ELSE -1
      endAfter4Abs == IF nextTopAfter4 # -1 THEN nextTopAfter4 ELSE Len(lines)
      seg(start, end) == IF start # -1 THEN Slice(lines, start, end) ELSE <<>>
      s1 == seg(idx1, IF idx2 # -1 THEN idx2 ELSE (IF idx4 # -1 THEN idx4 ELSE endAfter4Abs))
      s2 == seg(idx2, IF idx3 # -1 THEN idx3 ELSE (IF idx4 # -1 THEN idx4 ELSE endAfter4Abs))
      s3 == seg(idx3, IF idx4 # -1 THEN idx4 ELSE endAfter4Abs)
      s4 == seg(idx4, endAfter4Abs)
      header == IF markerIdx # -1 THEN lines[markerIdx + 1] ELSE markerText
      rest == s1 \o s2 \o s3 \o s4
      filtered == <<header>> \o SelectSeq(rest, LAMBDA l : ~LineHasMarker(l))
  IN IF idx1 = -1 THEN text ELSE Trim(filtered)

hasFullStructure(text) ==
  LET i1 == FindIndex(text, KwTitle)
      i2 == FindIndex(text, KwOutline)
      i3 == FindIndex(text, KwBody)
      i4 == FindIndex(text, KwConclusion)
  IN i1 # -1 /\ i2 # -1 /\ i3 # -1 /\ i4 # -1 /\ i1 < i2 /\ i2 < i3 /\ i3 < i4

\* /^\s*##\s+/.test(l)
IsH2Item(l) == l.k \in {"hi", "hx", "hM", "hK", "hT", "hO"}

KwAfterTitle(l) == KwOutline(l) \/ KwBody(l) \/ KwConclusion(l)

getTitleCandidateCount(text) ==
  LET start == FindIndex(text, KwTitle)
      end == FindFrom(text, KwAfterTitle, start + 1)
      segment == Slice(text, start + 1, IF end = -1 THEN Len(text) ELSE end)
  IN IF start = -1 THEN 0
     ELSE Cardinality({i \in 1..Len(segment) : IsH2Item(segment[i])})

\* ranges: target character range of a length tier, medium when unknown.
ranges(lengthKey) ==
  CASE lengthKey = "short" -> [min |-> 300, max |-> 500]
    [] lengthKey = "long" -> [min |-> 1500, max |-> 2200]
    [] OTHER -> [min |-> 800, max |-> 1200]

\* A line cut in the middle keeps its "#" prefix but loses what made it a
\* marker, a header or a sentence.
CutLine(l, n) == IF IsH2Item(l) \/ IsTopAny(l) THEN Line("hx", n) ELSE Line("px", n)

\* Characters are taken until the counted characters use up the room.
RECURSIVE TakeChars(_, _)
TakeChars(ls, room) ==
  IF ls = <<>> \/ room <= 0 THEN <<>>
  ELSE LET l == Head(ls) IN
    IF l.n < room THEN <<l>> \o TakeChars(Tail(ls), room - l.n)
    ELSE IF l.n = room THEN <<l>>
    ELSE <<CutLine(l, room)>>

\* The body is split after each sentence end and at blank lines; the
\* segments are trimmed and concatenated without a separator, so the first
\* line of a segment continues the last line of the segment before it.
RECURSIVE GlueSegments(_, _, _)
GlueSegments(ls, out, glue) ==
  IF ls = <<>> THEN out
  ELSE LET l == Head(ls) IN
    IF l = bl THEN GlueSegments(Tail(ls), out, out # <<>>)
    ELSE IF glue /\ out # <<>>
    THEN GlueSegments(Tail(ls),
                      Front(out) \o <<Line(out[Len(out)].k, out[Len(out)].n + l.n)>>,
                      l.k \in {"tx", "wc"})
    ELSE GlueSegments(Tail(ls), out \o <<l>>, l.k \in {"tx", "wc"})

OrBlank(t) == IF t = <<>> THEN <<bl>> ELSE t

clampOutputToLength(text, lengthKey, allowOverflow) ==
  LET max == ranges(lengthKey).max
      total == getCharCount(text)
      lines == text
      idxBodyStart == FindIndex(lines, IsTop3)
      idxNextTop == FindFrom(lines, IsTop4, idxBodyStart + 1)
      bodyEnd == IF idxNextTop # -1 THEN idxNextTop ELSE Len(lines)
      prefix == Slice(lines, 0, idxBodyStart + 1)
      body == Slice(lines, idxBodyStart + 1, bodyEnd)
      suffix == Slice(lines, bodyEnd, Len(lines))
      fixedCount == getCharCount(prefix) + getCharCount(suffix)
      budget == max - fixedCount
      chosen == TakeChars(GlueSegments(body, <<>>, FALSE), budget)
  IN IF allowOverflow THEN text
     ELSE IF total <= max THEN text
     ELSE IF idxBodyStart = -1 THEN Trim(TakeChars(text, max))
     ELSE IF budget <= 0 THEN Trim(JoinBlank(prefix, suffix))
     ELSE Trim(prefix \o OrBlank(chosen) \o OrBlank(suffix))

\* /未完|待续|\.{3}$|…$/ without the m flag: "未完" or "待续" anywhere in
\* the text (kind "wc"), or "..." / "…" as the last characters of the text
\* (kind "el": a line that ends with an ellipsis).
LooksTruncated(text) ==
  \/ \E i \in 1..Len(text) : text[i].k = "wc"
  \/ Len(text) > 0 /\ text[Len(text)].k = "el"

\* isLikelyIncomplete for formData.language = "zh"
isLikelyIncomplete(text, lengthKey) ==
  LET isFallback == hasFallbackMarker(text)
      hasBody == \E i \in 1..Len(text) : KwBody(text[i])
      hasConclusion == \E i \in 1..Len(text) : text[i].k \in {"R4", "H4"}
      count == getCharCount(text)
  IN IF isFallback THEN FALSE
     ELSE ~hasBody \/ ~hasConclusion \/ LooksTruncated(text) \/ count < ranges(lengthKey).min

\* ------------------------------------------------------------ pipelines

\* The throttled live update (scheduleUpdate callback).
LivePipeline(t) ==
  dedupeTopSections(normalizeTopSections(normalizeOutline(normalizeTitleCandidates(t))))

\* The flush at stream end.
EndPipeline(t) == stripDuplicateStructures(LivePipeline(t))

\* ------------------------------------------------- endpoint and its answers

tx320 == Line("tx", 320)
tx60 == Line("tx", 60)
tx20 == Line("tx", 20)

\* a complete answer of the model, as the prompt asks for it
DocFull == <<R1, it, it, it, R2, it, R3, tx320, R4, tx60, bl>>
\* an answer that stops after the body
DocNoConclusion == <<R1, it, it, it, R2, it, R3, tx320, bl>>
\* a conclusion section
DocConclusion == <<R4, tx60, bl>>
\* the same after a sentence such as "……尚未完成……"
DocConclusionCue == <<wc, R4, tx60, bl>>
\* free text without any section
DocPlain == <<tx320, bl>>
\* the locally synthesized stub of the generation endpoint
DocStub == <<MK, bl, R1, it, it, it, bl, R2, it, bl, R3, tx20, bl, R4, bl>>

\* contents a non-streaming answer can carry (<<>>: no content)
Contents == {<<>>, DocFull, DocConclusion, DocStub}

\* frames of a streamed answer: content delta and meta.source flag
Frames ==
  {[content |-> c, meta |-> FALSE] :
     c \in {DocNoConclusion, DocConclusion, DocConclusionCue, DocPlain}}
  \cup {[content |-> DocStub, meta |-> TRUE]}

\* frames of a streamed continuation
ContFrames == {[content |-> DocConclusion, meta |-> FALSE], [content |-> DocStub, meta |-> TRUE]}

FailureTypes == {"API", "code"}

\* The error responses the route gives a request that asks for a stream:
\* missing field, missing API key, timeout, any other exception.  (An error
\* status of the upstream never reaches the client as an error status on
\* this path: it becomes the fallback frame of a 200 response.)
StreamErrorResponses ==
  {[status |-> 400, failureType |-> "code"],
   [status |-> 500, failureType |-> "code"],
   [status |-> 504, failureType |-> "API"]}

\* outcome of one fetch of a non-streaming request
NsOutcomes ==
  {[t |-> "reject", ft |-> "none", content |-> <<>>]}
  \cup {[t |-> "err", ft |-> f, content |-> <<>>] : f \in FailureTypes}
  \cup {[t |-> "ok", ft |-> "none", content |-> c] : c \in Contents}

\* frames read from one primary stream / one continuation stream
MaxFrames == 2
MaxContFrames == 1
\* seconds the watchdog waits (12000 ms) and its period (1000 ms)
WatchdogLimit == 12

\* ------------------------------------------------------------------ state

VARIABLES
  output,          \* page state: the displayed text
  isLoading,       \* page state
  error,           \* page state: "none" or the message shown
  history,         \* texts handed to addToHistory, in order
  formData,        \* the form's fields
  pc,              \* position of the handleGenerate invocation
  capturedOutput,  \* `output` as closed over by the running callback
  fullText, finalText, newText,
  firstChunkReceived, fallbackStreamHit, showedFallbackNotice,
  didAutoComplete, loops, needFill,
  nFrames,         \* frames read from the current stream
  rafPending,      \* pendingUpdate: an animation-frame update has been requested
  rafScheduled,    \* animation-frame callbacks requested and neither run nor cancelled
  watchdogArmed,   \* the setInterval timer exists
  aborted,         \* controller.signal.aborted
  nAborts,         \* calls of controller.abort()
  sinceChunk,      \* whole seconds since lastChunkAt
  primaryFt,       \* failureType of the primary error response
  primaryStatus,   \* HTTP status of the primary error response (0: none)
  reqs,            \* requests issued by this invocation, in order
  lastPrev,        \* previousContent of the latest isContinue request
  markerSeen,      \* the accumulated text (fullText, finalText) has contained a fallback marker
  markerReceived,  \* some received content contained a fallback marker
  primaryText,     \* what the primary phase accumulated (fullText at its end)
  lastResp,        \* outcome of the nested request that resolved last
  lastCallRejected, \* the latest handleGenerate call returned at its validation
  wireIds,         \* byte-level reader: the frames the endpoint wrote
  wire,            \* the bytes of the response body
  pos,             \* bytes delivered so far
  decPending,      \* TextDecoder: lead byte waiting for its trail byte
  buffer,          \* characters not yet consumed
  sText,           \* fullText of the byte-level reader
  sHit,            \* fallbackStreamHit of the byte-level reader
  sDone,           \* reader.read() has reported done
  buffer2,         \* the line buffer of the nested readers
  autoText,        \* newText of the auto-continuation reader
  contText,        \* newText of the reader of handleContinue
  nIn,             \* normalizers: the document given
  nOut,            \* normalizers: the document returned
  nOp,             \* normalizers: the function applied ("none" before)
  nLang,           \* formData.language of the document given
  now,             \* Date.now(), in seconds
  fallbackToastClock,  \* fallbackToastClock.current: lastAt (0: null), lastMsg
  toasts,          \* the notices displayed by showFallbackToast, with their time
  cPc,             \* handleContinue: position of the invocation
  cOutput,         \* handleContinue: `output` of the closure (before the continuation)
  cNewText,        \* handleContinue: newText
  cHit,            \* handleContinue: fallbackStreamHit
  cFrames,         \* handleContinue: frames read
  stored,          \* localStorage writingHistory, latest first
  cWrites,         \* calls of updateHistoryItem / addToHistory by handleContinue
  pPc,             \* streaming proxy: position of start(controller)
  isClosed,        \* streaming proxy: isClosed
  hasEmitted,      \* streaming proxy: hasEmitted
  cancelled,       \* the client has cancelled the response stream
  closeCalls,      \* calls of controller.close()
  emitted,         \* frames enqueued
  pLines,          \* upstream lines processed
  lateEnqueue,     \* controller.enqueue was called with isClosed set or after close()
  hStore,          \* history store: the array held by localStorage
  hClock,          \* history store: Date.now()
  hNextId,         \* history store: the next fresh id
  hOp,             \* history store: the latest call, its id, whether its write succeeded
  hN               \* history store: calls made

uiVars == <<output, isLoading, error, history, formData>>
locVars == <<capturedOutput, fullText, finalText, newText, firstChunkReceived,
             fallbackStreamHit, showedFallbackNotice, didAutoComplete, loops,
             needFill, nFrames, primaryFt, primaryStatus, primaryText>>
timerVars == <<rafPending, rafScheduled, watchdogArmed, aborted, nAborts, sinceChunk>>
logVars == <<reqs, lastPrev, markerSeen, markerReceived>>
streamVars == <<wireIds, wire, pos, decPending, buffer, sText, sHit, sDone,
                buffer2, autoText, contText>>
normVars == <<nIn, nOut, nOp, nLang>>
toastVars == <<now, fallbackToastClock, toasts>>
contVars == <<cPc, cOutput, cNewText, cHit, cFrames, stored, cWrites>>
proxyVars == <<pPc, isClosed, hasEmitted, cancelled, closeCalls, emitted, pLines, lateEnqueue>>
storeVars == <<hStore, hClock, hNextId, hOp, hN>>
auxVars == <<normVars, toastVars, contVars, proxyVars, storeVars>>
\* the state of handleGenerate and of the page
orchVars == <<uiVars, pc, locVars, timerVars, logVars, lastResp, lastCallRejected>>
vars == <<uiVars, pc, locVars, timerVars, logVars, lastResp, lastCallRejected, streamVars, auxVars>>

\* positions at which the invocation waits for the network
AwaitPcs == {"primary", "errRetry", "reading", "nsFallback", "autoCont", "autoRetry",
             "autoReading", "conclFill", "regen", "fill", "backfillCont",
             "abortRegen", "abortSalvage"}
\* other handlers and timers run only while no handler code is running
Yielded == pc \in AwaitPcs \cup {"idle", "returned"}

NoResponse == [t |-> "none", content |-> <<>>]

StreamIdle ==
  /\ wireIds = <<>>
  /\ wire = <<>>
  /\ pos = 0
  /\ decPending = <<>>
  /\ buffer = <<>>
  /\ sText = <<>>
  /\ sHit = FALSE
  /\ sDone = FALSE
  /\ buffer2 = <<>>
  /\ autoText = <<>>
  /\ contText = <<>>

FormInit ==
  /\ output = <<>>
  /\ isLoading = FALSE
  /\ error = "none"
  /\ history = <<>>
  /\ formData = [model |-> "deepseek", kwLen |-> 0, descLen |-> 0,
                 autoComplete |-> TRUE, length |-> "medium"]
  /\ pc = "idle"
  /\ capturedOutput = <<>>
  /\ fullText = <<>>
  /\ finalText = <<>>
  /\ newText = <<>>
  /\ firstChunkReceived = FALSE
  /\ fallbackStreamHit = FALSE
  /\ showedFallbackNotice = FALSE
  /\ didAutoComplete = FALSE
  /\ loops = 0
  /\ needFill = FALSE
  /\ nFrames = 0
  /\ rafPending = FALSE
  /\ rafScheduled = 0
  /\ watchdogArmed = FALSE
  /\ aborted = FALSE
  /\ nAborts = 0
  /\ sinceChunk = 0
  /\ primaryFt = "none"
  /\ primaryStatus = 0
  /\ reqs = <<>>
  /\ lastPrev = <<>>
  /\ markerSeen = FALSE
  /\ markerReceived = FALSE
  /\ primaryText = <<>>
  /\ lastResp = NoResponse
  /\ lastCallRejected = FALSE

NormIdle ==
  /\ nIn = <<>>
  /\ nOut = <<>>
  /\ nOp = "none"
  /\ nLang = "zh"

ToastIdle ==
  /\ now = 1
  /\ fallbackToastClock = [lastAt |-> 0, lastMsg |-> "none"]
  /\ toasts = <<>>
ContIdle ==
  /\ cPc = "idle"
  /\ cOutput = <<>>
  /\ cNewText = <<>>
  /\ cHit = FALSE
  /\ cFrames = 0
  /\ stored = <<>>
  /\ cWrites = <<>>
ProxyIdle ==
  /\ pPc = "start"
  /\ isClosed = FALSE
  /\ hasEmitted = FALSE
  /\ cancelled = FALSE
  /\ closeCalls = 0
  /\ emitted = 0
  /\ pLines = 0
  /\ lateEnqueue = FALSE
StoreIdle ==
  /\ hStore = <<>>
  /\ hClock = 0
  /\ hNextId = 1
  /\ hOp = [op |-> "none", id |-> 0, ok |-> TRUE]
  /\ hN = 0
AuxIdle == NormIdle /\ ToastIdle /\ ContIdle /\ ProxyIdle /\ StoreIdle

Init == FormInit /\ StreamIdle /\ AuxIdle

\* fetch("/api/generate", ...): the request as the log keeps it
Request(kind, isContinue, stream) == [kind |-> kind, cont |-> isContinue, stream |-> stream]

\* ------------------------------------------------------------ the page

\* values the form's inputs are given (keyword and description by length)
FieldValues ==
  [model |-> {"", "deepseek"}, kwLen |-> {1, 2, 51}, descLen |-> {9, 10, 1001},
   autoComplete |-> BOOLEAN, length |-> {"short", "medium"}]

\* stored items the history panel offers
HistoryItems ==
  {[output |-> o, kwLen |-> 2, descLen |-> 10, length |-> "short"] :
     o \in {<<H1, hi, H2, hi, H3, tx320>>}}

\* onChange / onValueChange of one form input
setFormData ==
  /\ pc = "idle"
  /\ \E f \in DOMAIN FieldValues : \E v \in FieldValues[f] :
       /\ formData[f] # v
       /\ formData' = [formData EXCEPT ![f] = v]
  /\ UNCHANGED <<output, isLoading, error, history, pc, locVars, timerVars, logVars>>
  /\ UNCHANGED <<lastResp, lastCallRejected, streamVars, auxVars>>

\* Home.handleSelectHistory with WritingForm.loadHistoryItem
handleSelectHistory ==
  /\ pc = "idle"
  /\ \E item \in HistoryItems :
       /\ output' = item.output
       /\ formData' = [formData EXCEPT !.model = "deepseek", !.kwLen = item.kwLen,
                         !.descLen = item.descLen, !.length = item.length]
  /\ output' # output
  /\ error' = "none"
  /\ UNCHANGED <<isLoading, history, pc, locVars, timerVars, logVars>>
  /\ UNCHANGED <<lastResp, lastCallRejected, streamVars, auxVars>>

\* the submit button and the regenerate / continue buttons of the output panel
SubmitEnabled == ~isLoading
RegenerateEnabled == output # <<>> /\ ~isLoading

\* ------------------------------------------------------ handleGenerate

\* a validation without the upper bound of the keyword
FormValidNoKeywordMax ==
  /\ formData.model # ""
  /\ formData.kwLen >= 2
  /\ formData.descLen >= 10 /\ formData.descLen <= 1000

\* the three checks at the head of handleGenerate pass
FormValid ==
  /\ formData.model # ""
  /\ formData.kwLen >= 2 /\ formData.kwLen <= 50
  /\ formData.descLen >= 10 /\ formData.descLen <= 1000

\* `生成失败（${label}）`: label is "上游服务/限流" for failureType "API" of
\* the primary response and "本地参数/配置" for anything else
failureMessage(ft) == IF ft = "API" THEN "E_failed_API" ELSE "E_failed_code"

\* the catch / finally at the end of handleGenerate for a non-abort error
Fail(msg) ==
  /\ error' = msg
  /\ isLoading' = FALSE
  /\ pc' = "returned"

\* handleSubmit / regenerate: validation, then the primary request
handleGenerate ==
  /\ pc = "idle"
  /\ SubmitEnabled
  /\ error' = "none"
  /\ lastCallRejected' = ~FormValid
  /\ IF ~FormValid
     THEN UNCHANGED <<output, isLoading, history, formData, pc, locVars, timerVars, logVars>>
     ELSE /\ isLoading' = TRUE
          /\ output' = <<>>
          /\ capturedOutput' = output
          /\ reqs' = Append(reqs, Request("primary", FALSE, TRUE))
          /\ pc' = "primary"
          /\ UNCHANGED <<history, formData, fullText, finalText, newText, firstChunkReceived,
                         fallbackStreamHit, showedFallbackNotice, didAutoComplete, loops,
                         needFill, nFrames, primaryFt, primaryStatus, primaryText, timerVars,
                         lastPrev, markerSeen, markerReceived>>
  /\ UNCHANGED <<lastResp, streamVars, auxVars>>

\* the primary fetch resolves or rejects
PrimaryResponse ==
  /\ pc = "primary"
  /\ \/ \* fetch rejects
        /\ Fail("E_network")
        /\ UNCHANGED <<output, history, formData, locVars, timerVars, logVars>>
     \/ \* error status: one non-streaming request follows
        /\ \E r \in StreamErrorResponses :
             /\ primaryFt' = r.failureType
             /\ primaryStatus' = r.status
        /\ reqs' = Append(reqs, Request("errRetry", FALSE, FALSE))
        /\ pc' = "errRetry"
        /\ UNCHANGED <<uiVars, capturedOutput, fullText, finalText, newText,
                       firstChunkReceived, fallbackStreamHit, showedFallbackNotice,
                       didAutoComplete, loops, needFill, nFrames, primaryText,
                       timerVars, lastPrev, markerSeen, markerReceived>>
     \/ \* ok without a body stream: the watchdog is armed, then the throw
        /\ watchdogArmed' = TRUE
        /\ sinceChunk' = 0
        /\ Fail("E_no_reader")
        /\ UNCHANGED <<output, history, formData, locVars, rafPending, rafScheduled, aborted, nAborts, logVars>>
     \/ \* ok with a body stream
        /\ watchdogArmed' = TRUE
        /\ sinceChunk' = 0
        /\ pc' = "reading"
        /\ UNCHANGED <<uiVars, locVars, rafPending, rafScheduled, aborted, nAborts, logVars>>
  /\ UNCHANGED <<lastResp, lastCallRejected, streamVars, auxVars>>

\* the non-streaming request after an error status of the primary request
ErrRetryResponse ==
  /\ pc = "errRetry"
  /\ \E r \in NsOutcomes :
       /\ lastResp' = [t |-> r.t, content |-> r.content]
       /\ IF r.t = "ok" /\ r.content # <<>>
          THEN /\ isLoading' = FALSE
               /\ output' = r.content
               /\ markerReceived' = (markerReceived \/ hasFallbackMarker(r.content))
               /\ pc' = "returned"
               /\ UNCHANGED <<error, history, formData, locVars, timerVars, reqs, lastPrev, markerSeen>>
          ELSE \* every failure is rethrown with the primary response's failureType
               /\ Fail(failureMessage(primaryFt))
               /\ UNCHANGED <<output, history, formData, locVars, timerVars, logVars>>
  /\ UNCHANGED <<lastCallRejected, streamVars, auxVars>>

\* ------------------------------------------------ primary stream (frames)

\* a scheduleUpdate without its pendingUpdate test
ShouldScheduleAlways(pending) == TRUE

\* scheduleUpdate: if (!pendingUpdate)
ShouldSchedule(pending) == ~pending

\* One parsed frame of the read loop: a frame with the local_fallback_stream
\* meta raises the flag, any other frame with content is appended.
ReadFrame ==
  /\ pc = "reading"
  /\ ~aborted
  /\ nFrames < MaxFrames
  /\ \E f \in Frames :
       /\ markerReceived' = (markerReceived \/ hasFallbackMarker(f.content))
       /\ IF f.meta
          THEN /\ showedFallbackNotice' = TRUE
               /\ fallbackStreamHit' = TRUE
               /\ UNCHANGED <<fullText, firstChunkReceived, isLoading, rafPending,
                               rafScheduled, sinceChunk>>
          ELSE /\ fullText' = StrCat(fullText, f.content)
               /\ firstChunkReceived' = TRUE
               /\ isLoading' = (IF firstChunkReceived THEN isLoading ELSE FALSE)
               /\ rafPending' = TRUE
               /\ rafScheduled' = (IF ShouldSchedule(rafPending) THEN rafScheduled + 1
                                   ELSE rafScheduled)
               /\ sinceChunk' = 0
               /\ UNCHANGED <<showedFallbackNotice, fallbackStreamHit>>
  /\ nFrames' = nFrames + 1
  /\ markerSeen' = (markerSeen \/ hasFallbackMarker(fullText'))
  /\ UNCHANGED <<output, error, history, formData, pc, capturedOutput, finalText, newText,
                 didAutoComplete, loops, needFill, primaryFt, primaryStatus, primaryText,
                 watchdogArmed, aborted, nAborts, reqs, lastPrev>>
  /\ UNCHANGED <<lastResp, lastCallRejected, streamVars, auxVars>>

\* the requestAnimationFrame callback of scheduleUpdate
RafCallback ==
  /\ rafScheduled > 0
  /\ Yielded
  /\ output' = LivePipeline(fullText)
  /\ rafPending' = FALSE
  /\ rafScheduled' = rafScheduled - 1
  /\ UNCHANGED <<isLoading, error, history, formData, pc, locVars,
                 watchdogArmed, aborted, nAborts, sinceChunk, logVars>>
  /\ UNCHANGED <<lastResp, lastCallRejected, streamVars, auxVars>>

MaxAbortCount == 2

\* a watchdog that allows one second more
WatchdogExpiredLate(elapsed) == elapsed > WatchdogLimit + 1

\* now - lastChunkAt > 12000
WatchdogExpired(elapsed) == elapsed > WatchdogLimit

\* the setInterval callback, one second after the previous one
WatchdogTick ==
  /\ watchdogArmed
  /\ Yielded
  /\ sinceChunk' = (IF sinceChunk > WatchdogLimit THEN sinceChunk ELSE sinceChunk + 1)
  /\ IF WatchdogExpired(sinceChunk')
     THEN /\ aborted' = TRUE
          /\ nAborts' = (IF nAborts < MaxAbortCount THEN nAborts + 1 ELSE nAborts)
     ELSE UNCHANGED <<aborted, nAborts>>
  /\ UNCHANGED <<uiVars, pc, locVars, rafPending, rafScheduled, watchdogArmed, logVars>>
  /\ UNCHANGED <<lastResp, lastCallRejected, streamVars, auxVars>>

\* reader.read() rejects with AbortError: the catch starts the regeneration
ReadAbort ==
  /\ pc = "reading"
  /\ aborted
  /\ reqs' = Append(reqs, Request("abortRegen", FALSE, FALSE))
  /\ pc' = "abortRegen"
  /\ UNCHANGED <<uiVars, locVars, timerVars, lastPrev, markerSeen, markerReceived>>
  /\ UNCHANGED <<lastResp, lastCallRejected, streamVars, auxVars>>

\* reader.read() rejects with another error
ReadError ==
  /\ pc = "reading"
  /\ ~aborted
  /\ Fail("E_read")
  /\ UNCHANGED <<output, history, formData, locVars, timerVars, logVars>>
  /\ UNCHANGED <<lastResp, lastCallRejected, streamVars, auxVars>>

NoFrame == [content |-> <<>>, meta |-> FALSE]

\* reader.read() reports done: flush, then the frame left in the buffer
\* without its blank line (rem), then clearInterval
ReadDone ==
  /\ pc = "reading"
  /\ ~aborted
  /\ \E rem \in {NoFrame} \cup (IF nFrames < MaxFrames THEN Frames ELSE {}) :
       /\ markerReceived' = (markerReceived \/ hasFallbackMarker(rem.content))
       /\ IF rem.meta
          THEN /\ fallbackStreamHit' = TRUE
               /\ output' = EndPipeline(fullText)
               /\ UNCHANGED <<fullText, firstChunkReceived, isLoading>>
          ELSE IF rem.content # <<>>
          THEN /\ fullText' = StrCat(fullText, rem.content)
               /\ firstChunkReceived' = TRUE
               /\ isLoading' = (IF firstChunkReceived THEN isLoading ELSE FALSE)
               /\ output' = EndPipeline(fullText')
               /\ UNCHANGED fallbackStreamHit
          ELSE /\ output' = EndPipeline(fullText)
               /\ UNCHANGED <<fullText, firstChunkReceived, isLoading, fallbackStreamHit>>
  /\ rafPending' = FALSE   \* pendingUpdate is read no more
  /\ rafScheduled' = (IF rafScheduled > 0 THEN rafScheduled - 1 ELSE 0)
  /\ watchdogArmed' = FALSE
  /\ sinceChunk' = 0   \* the interval is cleared: its clock is read no more
  /\ markerSeen' = (markerSeen \/ hasFallbackMarker(fullText'))
  /\ pc' = "afterStream"
  /\ UNCHANGED <<error, history, formData, capturedOutput, finalText, newText,
                 showedFallbackNotice, didAutoComplete, loops, needFill, nFrames,
                 primaryFt, primaryStatus, primaryText, aborted, nAborts, reqs, lastPrev>>
  /\ UNCHANGED <<lastResp, lastCallRejected, streamVars, auxVars>>

\* a reader that forgets the fallback hit
NeedsNonStreamIgnoringHit(text, hit) == Trim(text) = <<>>

\* !fullText || fullText.trim().length === 0 || fallbackStreamHit
NeedsNonStream(text, hit) == Trim(text) = <<>> \/ hit

\* "Fallback to non-stream if empty"
CheckEmptyOrFallback ==
  /\ pc = "afterStream"
  /\ IF NeedsNonStream(fullText, fallbackStreamHit)
     THEN /\ reqs' = Append(reqs, Request("nsFallback", FALSE, FALSE))
          /\ pc' = "nsFallback"
     ELSE /\ pc' = "decideAuto"
          /\ UNCHANGED reqs
  /\ UNCHANGED <<uiVars, locVars, timerVars, lastPrev, markerSeen, markerReceived>>
  /\ UNCHANGED <<lastResp, lastCallRejected, streamVars, auxVars>>

NsFallbackResponse ==
  /\ pc = "nsFallback"
  /\ \E r \in NsOutcomes :
       /\ lastResp' = [t |-> r.t, content |-> r.content]
       /\ IF r.t = "ok" /\ r.content # <<>>
          THEN /\ fullText' = r.content
               /\ output' = enforceFallbackShape(EndPipeline(r.content))
               /\ isLoading' = FALSE
               /\ showedFallbackNotice' = (showedFallbackNotice \/ hasFallbackMarker(r.content))
               /\ markerReceived' = (markerReceived \/ hasFallbackMarker(r.content))
          ELSE UNCHANGED <<fullText, output, isLoading, showedFallbackNotice, markerReceived>>
  /\ markerSeen' = (markerSeen \/ hasFallbackMarker(fullText'))
  /\ pc' = "decideAuto"
  /\ UNCHANGED <<error, history, formData, capturedOutput, finalText, newText,
                 firstChunkReceived, fallbackStreamHit, didAutoComplete, loops, needFill,
                 nFrames, primaryFt, primaryStatus, primaryText, timerVars, reqs, lastPrev>>
  /\ UNCHANGED <<lastCallRejected, streamVars, auxVars>>

\* -------------------------------------------------------- auto-continuation

\* "Auto-completion detection": finalText = fullText, then the request
DecideAutoComplete ==
  /\ pc = "decideAuto"
  /\ finalText' = fullText
  /\ primaryText' = fullText
  /\ didAutoComplete' = FALSE
  /\ IF formData.autoComplete /\ isLikelyIncomplete(fullText, formData.length)
     THEN /\ isLoading' = TRUE
          /\ newText' = <<>>
          /\ nFrames' = 0
          /\ reqs' = Append(reqs, Request("autoCont", TRUE, TRUE))
          /\ lastPrev' = fullText
          /\ pc' = "autoCont"
     ELSE /\ pc' = "post"
          /\ UNCHANGED <<isLoading, newText, nFrames, reqs, lastPrev>>
  /\ UNCHANGED <<output, error, history, formData, capturedOutput, fullText,
                 firstChunkReceived, fallbackStreamHit, showedFallbackNotice, loops,
                 needFill, primaryFt, primaryStatus, timerVars, markerSeen, markerReceived>>
  /\ UNCHANGED <<lastResp, lastCallRejected, streamVars, auxVars>>

\* the continuation fetch resolves or rejects; every throw is caught by the
\* round's own catch and its finally sets isLoading(false)
AutoContResponse ==
  /\ pc = "autoCont"
  /\ \/ \* fetch rejects, or ok without a body stream
        /\ isLoading' = FALSE
        /\ pc' = "post"
        /\ lastResp' = [t |-> "reject", content |-> <<>>]
        /\ UNCHANGED reqs
     \/ \* error status: the non-streaming continuation follows
        /\ reqs' = Append(reqs, Request("autoRetry", TRUE, FALSE))
        /\ pc' = "autoRetry"
        /\ lastResp' = [t |-> "err", content |-> <<>>]
        /\ UNCHANGED isLoading
     \/ \* ok with a body stream
        /\ pc' = "autoReading"
        /\ UNCHANGED <<isLoading, reqs, lastResp>>
  /\ UNCHANGED <<output, error, history, formData, locVars, timerVars,
                 lastPrev, markerSeen, markerReceived>>
  /\ UNCHANGED <<lastCallRejected, streamVars, auxVars>>

AutoRetryResponse ==
  /\ pc = "autoRetry"
  /\ \E r \in NsOutcomes :
       /\ lastResp' = [t |-> r.t, content |-> r.content]
       /\ IF r.t = "ok" /\ r.content # <<>>
          THEN /\ newText' = r.content
               /\ output' = JoinBlank(fullText, r.content)
               /\ didAutoComplete' = TRUE
               \* the error response's body holds no data: line; newText is kept
               /\ finalText' = JoinBlank(fullText, r.content)
               /\ markerReceived' = (markerReceived \/ hasFallbackMarker(r.content))
               /\ markerSeen' = (markerSeen \/ hasFallbackMarker(r.content))
          ELSE UNCHANGED <<newText, output, didAutoComplete, finalText, markerReceived, markerSeen>>
  /\ isLoading' = FALSE
  /\ pc' = "post"
  /\ UNCHANGED <<error, history, formData, capturedOutput, fullText, firstChunkReceived,
                 fallbackStreamHit, showedFallbackNotice, loops, needFill, nFrames,
                 primaryFt, primaryStatus, primaryText, timerVars, reqs, lastPrev>>
  /\ UNCHANGED <<lastCallRejected, streamVars, auxVars>>

\* one frame of the continuation stream: its reader does not look at meta
AutoReadFrame ==
  /\ pc = "autoReading"
  /\ nFrames < MaxContFrames
  /\ \E f \in ContFrames :
       /\ newText' = StrCat(newText, f.content)
       /\ markerReceived' = (markerReceived \/ hasFallbackMarker(f.content))
  /\ isLoading' = (IF newText = <<>> THEN FALSE ELSE isLoading)
  /\ output' = JoinBlank(fullText, newText')
  /\ nFrames' = nFrames + 1
  /\ UNCHANGED <<error, history, formData, pc, capturedOutput, fullText, finalText, markerSeen,
                 firstChunkReceived, fallbackStreamHit, showedFallbackNotice,
                 didAutoComplete, loops, needFill, primaryFt, primaryStatus, primaryText,
                 timerVars, reqs, lastPrev>>
  /\ UNCHANGED <<lastResp, lastCallRejected, streamVars, auxVars>>

AutoReadDone ==
  /\ pc = "autoReading"
  /\ \E rem \in {NoFrame} \cup (IF nFrames < MaxContFrames THEN ContFrames ELSE {}) :
       /\ newText' = StrCat(newText, rem.content)
       /\ markerReceived' = (markerReceived \/ hasFallbackMarker(rem.content))
       /\ output' = (IF rem.content # <<>> THEN JoinBlank(fullText, newText') ELSE output)
  /\ IF newText' # <<>>
     THEN /\ finalText' = JoinBlank(fullText, newText')
          /\ didAutoComplete' = TRUE
     ELSE UNCHANGED <<finalText, didAutoComplete>>
  /\ markerSeen' = (markerSeen \/ hasFallbackMarker(finalText'))
  /\ lastResp' = [t |-> "ok", content |-> newText']
  /\ isLoading' = FALSE
  /\ pc' = "post"
  /\ UNCHANGED <<error, history, formData, capturedOutput, fullText, firstChunkReceived,
                 fallbackStreamHit, showedFallbackNotice, loops, needFill, nFrames,
                 primaryFt, primaryStatus, primaryText, timerVars, reqs, lastPrev>>
  /\ UNCHANGED <<lastCallRejected, streamVars, auxVars>>

\* a continuation round without its try / catch
AutoReadErrorUncaught ==
  /\ pc = "autoReading"
  /\ lastResp' = [t |-> "reject", content |-> <<>>]
  /\ Fail("E_read")
  /\ UNCHANGED <<output, history, formData, locVars, timerVars, logVars>>
  /\ UNCHANGED <<lastCallRejected, streamVars, auxVars>>

\* reader2.read() rejects: what was shown stays shown, finalText = fullText
AutoReadError ==
  /\ pc = "autoReading"
  /\ lastResp' = [t |-> "reject", content |-> <<>>]
  /\ isLoading' = FALSE
  /\ pc' = "post"
  /\ UNCHANGED <<output, error, history, formData, locVars, timerVars, logVars>>
  /\ UNCHANGED <<lastCallRejected, streamVars, auxVars>>

\* ---------------------------------------------------------- post-processing

\* finalText.slice(firstIdx).trim(): from the first marker on; the cut at the
\* second marker is finalText.slice(0, second).trim()
SliceFromFirstMarker(t) ==
  LET firstIdx == FindIndex(t, LineHasMarker)
  IN IF firstIdx = -1 THEN t ELSE Trim(Slice(t, firstIdx, Len(t)))

\* the cut taken at the marker's first occurrence instead of its second
CutAtFirstMarker(t) ==
  LET first == FindIndex(t, LineHasMarker)
  IN IF first = -1 THEN t ELSE Trim(Slice(t, 0, first))

CutAtSecondMarker(t) ==
  LET first == FindIndex(t, LineHasMarker)
      second == IF first = -1 THEN -1 ELSE FindFrom(t, LineHasMarker, first + 1)
  IN IF second = -1 THEN t ELSE Trim(Slice(t, 0, second))

FinalPipeline(t, lengthKey, allowOverflow) ==
  clampOutputToLength(enforceFallbackShape(EndPipeline(t)), lengthKey, allowOverflow)

ConclusionHeader == <<bl, H4Fill, bl>>

\* /(结尾总结|行动建议|结语)/.test(finalText)
hasChineseConclusion(t) == \E i \in 1..Len(t) : t[i].k \in {"R4", "H4"}

\* if (formData.autoComplete && !hasFallbackMarker(finalText)) { ... if (!hasConclusionTop)
ConclusionFillDue(t, autoComplete) ==
  autoComplete /\ ~hasFallbackMarker(t) /\ ~hasChineseConclusion(t)

\* marker cut, final normalization, then the targeted conclusion request
PostProcess ==
  /\ pc = "post"
  /\ LET cut == CutAtSecondMarker(SliceFromFirstMarker(finalText))
         norm == FinalPipeline(cut, formData.length, formData.autoComplete)
     IN IF finalText = <<>> THEN
          /\ pc' = "save"
          /\ UNCHANGED <<finalText, output, isLoading, reqs, lastPrev>>
        ELSE IF cut = <<>> THEN
          /\ finalText' = cut
          /\ pc' = "save"
          /\ UNCHANGED <<output, isLoading, reqs, lastPrev>>
        ELSE
          /\ finalText' = norm
          /\ output' = norm
          /\ IF ConclusionFillDue(norm, formData.autoComplete)
             THEN /\ isLoading' = TRUE
                  /\ reqs' = Append(reqs, Request("conclFill", TRUE, FALSE))
                  /\ lastPrev' = Trim(norm) \o ConclusionHeader
                  /\ pc' = "conclFill"
             ELSE /\ pc' = "decideRegen"
                  /\ UNCHANGED <<isLoading, reqs, lastPrev>>
  /\ markerSeen' = (markerSeen \/ hasFallbackMarker(finalText'))
  /\ UNCHANGED <<error, history, formData, capturedOutput, fullText, newText,
                 firstChunkReceived, fallbackStreamHit, showedFallbackNotice,
                 didAutoComplete, loops, needFill, nFrames, primaryFt, primaryStatus, primaryText,
                 timerVars, markerReceived>>
  /\ UNCHANGED <<lastResp, lastCallRejected, streamVars, auxVars>>

ConclFillResponse ==
  /\ pc = "conclFill"
  /\ \E r \in NsOutcomes :
       /\ lastResp' = [t |-> r.t, content |-> r.content]
       /\ IF r.t = "ok" /\ r.content # <<>>
          THEN /\ finalText' = LivePipeline(Trim(Trim(finalText) \o ConclusionHeader \o r.content))
               /\ output' = finalText'
               /\ markerReceived' = (markerReceived \/ hasFallbackMarker(r.content))
          ELSE UNCHANGED <<finalText, output, markerReceived>>
  /\ markerSeen' = (markerSeen \/ hasFallbackMarker(finalText'))
  /\ isLoading' = FALSE
  /\ pc' = "decideRegen"
  /\ UNCHANGED <<error, history, formData, capturedOutput, fullText, newText,
                 firstChunkReceived, fallbackStreamHit, showedFallbackNotice,
                 didAutoComplete, loops, needFill, nFrames, primaryFt, primaryStatus, primaryText,
                 timerVars, reqs, lastPrev>>
  /\ UNCHANGED <<lastCallRejected, streamVars, auxVars>>

\* "3. 正文\n${kw} — ${description}\n"
BodyStub == <<R3, Line("px", formData.kwLen + 1 + formData.descLen)>>

\* "If structure or candidates look incomplete, try a non-stream regeneration once"
DecideRegen ==
  /\ pc = "decideRegen"
  /\ IF ~didAutoComplete /\ ~hasFallbackMarker(finalText)
        /\ (~hasFullStructure(finalText) \/ getTitleCandidateCount(finalText) < 3)
     THEN /\ isLoading' = TRUE
          /\ reqs' = Append(reqs, Request("regen", FALSE, FALSE))
          /\ pc' = "regen"
     ELSE /\ pc' = "decideFill"
          /\ UNCHANGED <<isLoading, reqs>>
  /\ UNCHANGED <<output, error, history, formData, locVars, timerVars,
                 lastPrev, markerSeen, markerReceived>>
  /\ UNCHANGED <<lastResp, lastCallRejected, streamVars, auxVars>>

RegenResponse ==
  /\ pc = "regen"
  /\ \E r \in NsOutcomes :
       /\ lastResp' = [t |-> r.t, content |-> r.content]
       /\ IF r.t = "ok" /\ r.content # <<>>
          THEN /\ finalText' = clampOutputToLength(LivePipeline(r.content),
                                                   formData.length, formData.autoComplete)
               /\ output' = finalText'
               /\ markerReceived' = (markerReceived \/ hasFallbackMarker(r.content))
          ELSE IF r.t = "ok"
          THEN /\ finalText' = clampOutputToLength(
                                 dedupeTopSections(normalizeTopSections(
                                   Trim(JoinBlank(Trim(finalText), BodyStub)))),
                                 formData.length, formData.autoComplete)
               /\ output' = finalText'
               /\ UNCHANGED markerReceived
          ELSE UNCHANGED <<finalText, output, markerReceived>>
  /\ markerSeen' = (markerSeen \/ hasFallbackMarker(finalText'))
  /\ isLoading' = FALSE
  /\ pc' = "decideFill"
  /\ UNCHANGED <<error, history, formData, capturedOutput, fullText, newText,
                 firstChunkReceived, fallbackStreamHit, showedFallbackNotice,
                 didAutoComplete, loops, needFill, nFrames, primaryFt, primaryStatus, primaryText,
                 timerVars, reqs, lastPrev>>
  /\ UNCHANGED <<lastCallRejected, streamVars, auxVars>>

\* getCharCount of the lines between the "# 4." header and the next header
ConclusionLen(t) ==
  LET idxConclusionTop == FindIndex(t, IsTop4)
      nextTop == FindFrom(t, IsTopAny, idxConclusionTop + 1)
      endIdx == IF nextTop = -1 THEN Len(t) ELSE nextTop
  IN IF idxConclusionTop = -1 THEN 0
     ELSE getCharCount(Slice(t, idxConclusionTop + 1, endIdx))

\* needBodyFill || needConclusionFill, as computed before the loop
NeedFill(t) ==
  LET hasBodyTop == \E i \in 1..Len(t) : KwBody(t[i])
      hasConclusionTop == \E i \in 1..Len(t) : KwConclusion(t[i])
  IN ~hasBodyTop \/ ~hasConclusionTop \/ ConclusionLen(t) < 50

\* a fill loop with one round more
MaxFillLoopsPlusOne == 2 + 1

MaxFillLoops == 2

\* a loop that tests its counter with <= instead of <
FillLoopOneMore(need, n) == need /\ n <= MaxFillLoops

\* while ((needBodyFill || needConclusionFill) && loops < 2)
FillLoopContinues(need, n) == need /\ n < MaxFillLoops

\* "Auto-complete: ensure completeness without enforcing max length"
DecideFill ==
  /\ pc = "decideFill"
  /\ loops' = 0
  /\ IF formData.autoComplete /\ ~hasFallbackMarker(finalText)
     THEN needFill' = NeedFill(finalText)
     ELSE needFill' = FALSE
  /\ IF FillLoopContinues(needFill', loops')
     THEN /\ isLoading' = TRUE
          /\ reqs' = Append(reqs, Request("fill", TRUE, FALSE))
          /\ lastPrev' = finalText
          /\ pc' = "fill"
     ELSE /\ pc' = "decideBackfill"
          /\ UNCHANGED <<isLoading, reqs, lastPrev>>
  /\ UNCHANGED <<output, error, history, formData, capturedOutput, fullText, finalText,
                 newText, firstChunkReceived, fallbackStreamHit, showedFallbackNotice,
                 didAutoComplete, nFrames, primaryFt, primaryStatus, primaryText, timerVars,
                 markerSeen, markerReceived>>
  /\ UNCHANGED <<lastResp, lastCallRejected, streamVars, auxVars>>

\* one round of the fill loop; the loop condition reads the flags computed
\* before the loop
FillResponse ==
  /\ pc = "fill"
  /\ \E r \in NsOutcomes :
       /\ lastResp' = [t |-> r.t, content |-> r.content]
       /\ IF r.t = "ok" /\ r.content # <<>>
          THEN /\ finalText' = LivePipeline(Trim(JoinBlank(finalText, r.content)))
               /\ output' = finalText'
               /\ markerReceived' = (markerReceived \/ hasFallbackMarker(r.content))
          ELSE UNCHANGED <<finalText, output, markerReceived>>
  /\ markerSeen' = (markerSeen \/ hasFallbackMarker(finalText'))
  /\ loops' = loops + 1
  /\ IF FillLoopContinues(needFill, loops')
     THEN /\ isLoading' = TRUE
          /\ reqs' = Append(reqs, Request("fill", TRUE, FALSE))
          /\ lastPrev' = finalText'
          /\ pc' = "fill"
     ELSE /\ isLoading' = FALSE
          /\ pc' = "decideBackfill"
          /\ UNCHANGED <<reqs, lastPrev>>
  /\ UNCHANGED <<error, history, formData, capturedOutput, fullText, newText,
                 firstChunkReceived, fallbackStreamHit, showedFallbackNotice,
                 didAutoComplete, needFill, nFrames, primaryFt, primaryStatus, primaryText, timerVars>>
  /\ UNCHANGED <<lastCallRejected, streamVars, auxVars>>

\* canned sections for 中文: three title candidates, two outline items
CandidatesStub ==
  <<R1, Line("hi", formData.kwLen + 8), Line("hi", formData.kwLen + 4),
    Line("hi", formData.kwLen + 4), bl>>
OutlineStub == <<R2, Line("hi", 5), Line("hi", 9), bl>>

\* prefix + finalText.trim() + suffix of the structural backfill
Backfilled(t) ==
  LET hasCandidates == \E i \in 1..Len(t) : KwTitle(t[i])
      hasOutline == \E i \in 1..Len(t) : KwOutline(t[i])
      hasBody == \E i \in 1..Len(t) : KwBody(t[i])
      prefix == (IF hasCandidates THEN <<>> ELSE CandidatesStub)
                \o (IF hasOutline THEN <<>> ELSE OutlineStub)
      suffix == IF hasBody THEN <<>> ELSE BodyStub
  IN Trim(prefix \o Trim(t) \o suffix)

\* "Ensure fallback content still conforms to expected structure if missing"
DecideBackfill ==
  /\ pc = "decideBackfill"
  /\ IF ~hasFullStructure(finalText) /\ ~hasFallbackMarker(finalText)
     THEN /\ finalText' = clampOutputToLength(
                            dedupeTopSections(normalizeTopSections(Backfilled(finalText))),
                            formData.length, formData.autoComplete)
          /\ output' = finalText'
          /\ IF formData.autoComplete
             THEN /\ isLoading' = TRUE
                  /\ reqs' = Append(reqs, Request("backfillCont", TRUE, FALSE))
                  /\ lastPrev' = finalText'
                  /\ pc' = "backfillCont"
             ELSE /\ pc' = "save"
                  /\ UNCHANGED <<isLoading, reqs, lastPrev>>
     ELSE /\ pc' = "save"
          /\ UNCHANGED <<finalText, output, isLoading, reqs, lastPrev>>
  /\ UNCHANGED <<error, history, formData, capturedOutput, fullText, newText,
                 firstChunkReceived, fallbackStreamHit, showedFallbackNotice,
                 didAutoComplete, loops, needFill, nFrames, primaryFt, primaryStatus, primaryText,
                 timerVars, markerSeen, markerReceived>>
  /\ UNCHANGED <<lastResp, lastCallRejected, streamVars, auxVars>>

BackfillContResponse ==
  /\ pc = "backfillCont"
  /\ \E r \in NsOutcomes :
       /\ lastResp' = [t |-> r.t, content |-> r.content]
       /\ IF r.t = "ok" /\ r.content # <<>>
          THEN /\ finalText' = clampOutputToLength(
                                 LivePipeline(Trim(JoinBlank(finalText, r.content))),
                                 formData.length, formData.autoComplete)
               /\ output' = finalText'
               /\ markerReceived' = (markerReceived \/ hasFallbackMarker(r.content))
          ELSE UNCHANGED <<finalText, output, markerReceived>>
  /\ markerSeen' = (markerSeen \/ hasFallbackMarker(finalText'))
  /\ isLoading' = FALSE
  /\ pc' = "save"
  /\ UNCHANGED <<error, history, formData, capturedOutput, fullText, newText,
                 firstChunkReceived, fallbackStreamHit, showedFallbackNotice,
                 didAutoComplete, loops, needFill, nFrames, primaryFt, primaryStatus, primaryText,
                 timerVars, reqs, lastPrev>>
  /\ UNCHANGED <<lastCallRejected, streamVars, auxVars>>

\* a save that writes the history entry before it looks at finalText
SaveToHistoryBeforeCheck ==
  /\ pc = "save"
  /\ history' = Append(history, finalText)
  /\ IF finalText # <<>>
     THEN /\ isLoading' = FALSE
          /\ pc' = "returned"
          /\ UNCHANGED error
     ELSE Fail("E_no_content")
  /\ UNCHANGED <<output, formData, locVars, timerVars, logVars>>
  /\ UNCHANGED <<lastResp, lastCallRejected, streamVars, auxVars>>

\* "Save to history after completion (finalText)", then the finally
SaveToHistory ==
  /\ pc = "save"
  /\ IF finalText # <<>>
     THEN /\ history' = Append(history, finalText)
          /\ isLoading' = FALSE
          /\ pc' = "returned"
          /\ UNCHANGED error
     ELSE /\ Fail("E_no_content")
          /\ UNCHANGED history
  /\ UNCHANGED <<output, formData, locVars, timerVars, logVars>>
  /\ UNCHANGED <<lastResp, lastCallRejected, streamVars, auxVars>>

\* ------------------------------------------------ recovery after an abort

\* the error of the inner catch (e2) of the AbortError branch
FailAbort(msg) ==
  /\ error' = msg
  /\ isLoading' = FALSE
  /\ pc' = "returned"

\* the non-streaming regeneration of the AbortError branch
AbortRegenResponse ==
  /\ pc = "abortRegen"
  /\ \E r \in NsOutcomes :
       /\ lastResp' = [t |-> r.t, content |-> r.content]
       /\ IF r.t = "ok" /\ r.content # <<>>
          THEN /\ output' = FinalPipeline(r.content, formData.length, formData.autoComplete)
               /\ markerReceived' = (markerReceived \/ hasFallbackMarker(r.content))
               /\ isLoading' = FALSE
               /\ pc' = "returned"
               /\ UNCHANGED <<error, reqs, lastPrev>>
          ELSE IF r.t = "ok"
          THEN /\ FailAbort("E_no_content")
               /\ UNCHANGED <<output, markerReceived, reqs, lastPrev>>
          ELSE IF r.t = "err"
          THEN IF Trim(capturedOutput) # <<>>
               THEN /\ reqs' = Append(reqs, Request("abortSalvage", TRUE, FALSE))
                    /\ lastPrev' = capturedOutput
                    /\ pc' = "abortSalvage"
                    /\ UNCHANGED <<output, markerReceived, error, isLoading>>
               ELSE /\ FailAbort("E_aborted")
                    /\ UNCHANGED <<output, markerReceived, reqs, lastPrev>>
          ELSE /\ FailAbort("E_network")
               /\ UNCHANGED <<output, markerReceived, reqs, lastPrev>>
  /\ UNCHANGED <<history, formData, locVars, timerVars, markerSeen>>
  /\ UNCHANGED <<lastCallRejected, streamVars, auxVars>>

\* the continuation from `output` as the callback closed over it
AbortSalvageResponse ==
  /\ pc = "abortSalvage"
  /\ \E r \in NsOutcomes :
       /\ lastResp' = [t |-> r.t, content |-> r.content]
       /\ IF r.t = "ok" /\ r.content # <<>>
          THEN /\ output' = JoinBlank(capturedOutput, r.content)
               /\ markerReceived' = (markerReceived \/ hasFallbackMarker(r.content))
               /\ isLoading' = FALSE
               /\ pc' = "returned"
               /\ UNCHANGED error
          ELSE /\ FailAbort(IF r.t = "ok" THEN "E_no_content"
                            ELSE IF r.t = "err" THEN "E_salvage" ELSE "E_network")
               /\ UNCHANGED <<output, markerReceived>>
  /\ UNCHANGED <<history, formData, locVars, timerVars, reqs, lastPrev, markerSeen>>
  /\ UNCHANGED <<lastCallRejected, streamVars, auxVars>>

\* ------------------------------------------------ primary stream (bytes)
\* The read loop over the bytes of a response body.  One symbol stands for
\* one byte: "n" is "\n", "s" a space, "d" ":" stand for the prefix
\* "data: ", "$" for the payload "[DONE]"; a JSON payload is "{" content "}"
\* where "!" before "}" stands for the meta object with source
\* "local_fallback_stream"; "L" "T" are the two bytes of one character "e".

Prefix == <<"d", ":">>
ContentChars == {"a", "b", "e"}

\* frames as the endpoint writes them, each ending with a blank line
WireFrame(id) ==
  CASE id = "a" -> <<"d", ":", "{", "a", "}", "n", "n">>
    [] id = "multibyte" -> <<"d", ":", "{", "L", "T", "b", "}", "n", "n">>
    [] id = "meta" -> <<"d", ":", "{", "a", "!", "}", "n", "n">>
    [] id = "done" -> <<"d", ":", "$", "n", "n">>
    [] id = "bad" -> <<"d", ":", "{", "a", "n", "n">>
    [] id = "twoLines" -> <<"d", ":", "{", "a", "n", "d", ":", "b", "}", "n", "n">>
    [] id = "indented" -> <<"s", "d", ":", "{", "b", "}", "n", "n">>
    [] OTHER -> <<":", "n", "n">>

WireFrameIds == {"a", "multibyte", "meta", "done", "bad", "twoLines", "indented", "comment"}

\* the content field of a frame; none for malformed, [DONE], comment frames
WireFrameContent(id) ==
  CASE id = "a" -> <<"a">>
    [] id = "multibyte" -> <<"e", "b">>
    [] id = "meta" -> <<"a">>
    [] id = "twoLines" -> <<"a", "b">>
    [] id = "indented" -> <<"b">>
    [] OTHER -> <<>>

MaxWireFrames == 2
MaxChunk == 3

RECURSIVE WireOf(_)
WireOf(ids) == IF ids = <<>> THEN <<>> ELSE WireFrame(Head(ids)) \o WireOf(Tail(ids))

\* TextDecoder.decode(value) without {stream: true}: a character cut by the
\* chunk boundary is lost on both sides
RECURSIVE DecodeNoStream(_, _)
DecodeNoStream(pending, bytes) ==
  IF bytes = <<>> THEN [chars |-> <<>>, pending |-> <<>>]
  ELSE LET b == Head(bytes)
           r == DecodeNoStream(<<>>, Tail(bytes))
       IN IF b = "L" /\ Tail(bytes) # <<>> /\ Head(Tail(bytes)) = "T"
          THEN LET r2 == DecodeNoStream(<<>>, Tail(Tail(bytes)))
               IN [chars |-> <<"e">> \o r2.chars, pending |-> <<>>]
          ELSE [chars |-> <<(IF b \in {"L", "T"} THEN "?" ELSE b)>> \o r.chars,
                pending |-> <<>>]

\* TextDecoder.decode(value, {stream: true}): a lead byte waits for its
\* trail byte; returns the characters and the byte still pending
RECURSIVE Decode(_, _)
Decode(pending, bytes) ==
  IF bytes = <<>> THEN [chars |-> <<>>, pending |-> pending]
  ELSE LET b == Head(bytes) IN
    IF pending = <<"L">>
    THEN LET r == Decode(<<>>, Tail(bytes))
         IN [chars |-> <<(IF b = "T" THEN "e" ELSE "?")>> \o r.chars, pending |-> r.pending]
    ELSE IF b = "L" THEN Decode(<<"L">>, Tail(bytes))
    ELSE LET r == Decode(<<>>, Tail(bytes))
         IN [chars |-> <<b>> \o r.chars, pending |-> r.pending]

\* buffer.indexOf("\n\n"), 0-based, -1 when absent
IndexOfBlankLine(buf) ==
  LET S == {i \in 1..(Len(buf) - 1) : buf[i] = "n" /\ buf[i + 1] = "n"}
  IN IF S = {} THEN -1 ELSE (CHOOSE i \in S : \A j \in S : i <= j) - 1

\* block.split("\n")
RECURSIVE SplitLines(_, _)
SplitLines(cs, cur) ==
  IF cs = <<>> THEN <<cur>>
  ELSE IF Head(cs) = "n" THEN <<cur>> \o SplitLines(Tail(cs), <<>>)
  ELSE SplitLines(Tail(cs), Append(cur, Head(cs)))

IsSpace(c) == c \in {"s", "n"}

RECURSIVE TrimChars(_)
TrimChars(cs) ==
  IF cs # <<>> /\ IsSpace(Head(cs)) THEN TrimChars(Tail(cs))
  ELSE IF cs # <<>> /\ IsSpace(cs[Len(cs)]) THEN TrimChars(SubSeq(cs, 1, Len(cs) - 1))
  ELSE cs

StartsWithPrefix(cs) == Len(cs) >= Len(Prefix) /\ SubSeq(cs, 1, Len(Prefix)) = Prefix

\* .split("\n").map(trim).filter(startsWith("data: ")).map(slice(6)).join("")
RECURSIVE JoinPayload(_)
JoinPayload(ls) ==
  IF ls = <<>> THEN <<>>
  ELSE LET l == TrimChars(Head(ls)) IN
    (IF StartsWithPrefix(l) THEN SubSeq(l, Len(Prefix) + 1, Len(l)) ELSE <<>>)
    \o JoinPayload(Tail(ls))

HasPayloadLine(ls) == \E i \in 1..Len(ls) : StartsWithPrefix(TrimChars(ls[i]))

\* JSON.parse(payload): ok is FALSE when it throws
JsonParse(p) ==
  LET inner == SubSeq(p, 2, Len(p) - 1)
      meta == inner # <<>> /\ inner[Len(inner)] = "!"
      content == IF meta THEN SubSeq(inner, 1, Len(inner) - 1) ELSE inner
      ok == /\ Len(p) >= 2 /\ p[1] = "{" /\ p[Len(p)] = "}"
            /\ \A i \in 1..Len(content) : content[i] \in ContentChars
  IN [ok |-> ok, content |-> content, meta |-> meta]

HandlePayloadParseErrorEscapes(payload, st) ==
  LET obj == JsonParse(payload) IN
  IF payload = <<"$">> THEN st
  ELSE IF ~obj.ok THEN [st EXCEPT !.text = <<>>]
  ELSE IF obj.meta THEN [st EXCEPT !.hit = TRUE]
  ELSE IF obj.content # <<>> THEN [st EXCEPT !.text = st.text \o obj.content]
  ELSE st

\* what one frame does to the reader's state st = [text, hit]
HandlePayload(payload, st) ==
  LET obj == JsonParse(payload) IN
  IF payload = <<"$">> \/ ~obj.ok THEN st
  ELSE IF obj.meta THEN [st EXCEPT !.hit = TRUE]
  ELSE IF obj.content # <<>> THEN [st EXCEPT !.text = st.text \o obj.content]
  ELSE st

\* the inner while loop: every complete block of the buffer
RECURSIVE DrainBuffer(_, _)
DrainBuffer(buf, st) ==
  LET idx == IndexOfBlankLine(buf)
      block == SubSeq(buf, 1, idx)
      rest == SubSeq(buf, idx + 3, Len(buf))
      ls == SplitLines(block, <<>>)
  IN IF idx = -1 THEN [buffer |-> buf, st |-> st]
     ELSE IF ~HasPayloadLine(ls) THEN DrainBuffer(rest, st)
     ELSE DrainBuffer(rest, HandlePayload(JoinPayload(ls), st))

\* "Process any remaining data in buffer"
DrainRemainder(buf, st) ==
  LET payload == JoinPayload(SplitLines(buf, <<>>))
  IN IF TrimChars(buf) = <<>> \/ payload = <<>> THEN st
     ELSE HandlePayload(payload, st)


\* ------------------------------------------ nested readers (line by line)

\* one line of a nested reader: trim, "data: " prefix, JSON.parse of the
\* line alone; honoursMeta: the reader of handleContinue does not append a
\* frame with the local_fallback_stream meta, the auto-continuation reader
\* reads obj.content only
HandleLine(line, text, honoursMeta) ==
  LET trimmed == TrimChars(line)
      data == SubSeq(trimmed, Len(Prefix) + 1, Len(trimmed))
      obj == JsonParse(data)
  IN IF trimmed = <<>> \/ ~StartsWithPrefix(trimmed) THEN text
     ELSE IF data = <<"$">> \/ ~obj.ok THEN text
     ELSE IF honoursMeta /\ obj.meta THEN text
     ELSE text \o obj.content

RECURSIVE HandleLines(_, _, _)
HandleLines(ls, text, honoursMeta) ==
  IF ls = <<>> THEN text
  ELSE HandleLines(Tail(ls), HandleLine(Head(ls), text, honoursMeta), honoursMeta)

\* lines = buffer.split("\n"); buffer = lines.pop()
LastLine(buf) == LET ls == SplitLines(buf, <<>>) IN ls[Len(ls)]
DrainLines(buf, text, honoursMeta) ==
  LET ls == SplitLines(buf, <<>>)
  IN HandleLines(SubSeq(ls, 1, Len(ls) - 1), text, honoursMeta)

\* ---------------------------------------------- byte-level reader: steps

\* the last frame with its blank line, with one newline, or with none
Wires(ids) == {SubSeq(WireOf(ids), 1, Len(WireOf(ids)) - k) : k \in 0..2}

IdSeqs == UNION {[1..n -> WireFrameIds] : n \in 1..MaxWireFrames}

InitStream ==
  /\ FormInit
  /\ AuxIdle
  /\ wireIds \in IdSeqs
  /\ wire \in Wires(wireIds)
  /\ pos = 0
  /\ decPending = <<>>
  /\ buffer = <<>>
  /\ sText = <<>>
  /\ sHit = FALSE
  /\ sDone = FALSE
  /\ buffer2 = <<>>
  /\ autoText = <<>>
  /\ contText = <<>>

\* reader.read() delivers the next chunk of 1..MaxChunk bytes
StreamRead ==
  /\ ~sDone
  /\ \E k \in 1..MaxChunk :
       /\ pos + k <= Len(wire)
       /\ LET dec == Decode(decPending, SubSeq(wire, pos + 1, pos + k))
              r == DrainBuffer(buffer \o dec.chars, [text |-> sText, hit |-> sHit])
          IN /\ decPending' = dec.pending
             /\ buffer' = r.buffer
             /\ sText' = r.st.text
             /\ sHit' = r.st.hit
             /\ buffer2' = LastLine(buffer2 \o dec.chars)
             /\ autoText' = DrainLines(buffer2 \o dec.chars, autoText, FALSE)
             /\ contText' = DrainLines(buffer2 \o dec.chars, contText, TRUE)
       /\ pos' = pos + k
  /\ UNCHANGED <<wireIds, wire, sDone, uiVars, pc, locVars, timerVars, logVars, lastResp, lastCallRejected, auxVars>>

\* reader.read() reports done: the remaining buffer is processed
StreamDone ==
  /\ ~sDone
  /\ pos = Len(wire)
  /\ LET st == DrainRemainder(buffer, [text |-> sText, hit |-> sHit])
     IN /\ sText' = st.text
        /\ sHit' = st.hit
  /\ autoText' = HandleLine(buffer2, autoText, FALSE)
  /\ contText' = HandleLine(buffer2, contText, TRUE)
  /\ sDone' = TRUE
  /\ UNCHANGED <<wireIds, wire, pos, decPending, buffer, buffer2, uiVars, pc, locVars, timerVars, logVars, lastResp, lastCallRejected, auxVars>>

NextStream == StreamRead \/ StreamDone

SpecStream == InitStream /\ [][NextStream]_vars

\* ------------------------------------------ the normalizers on their own

\* the header of section n and a block of section n with one line of its own
\* (tag distinguishes a second copy)
SectionHeader(n) == CASE n = 1 -> H1 [] n = 2 -> H2 [] n = 3 -> H3 [] OTHER -> H4
SectionBlock(n, tag) == <<SectionHeader(n), Line("tx", tag + n)>>

\* the four blocks in every order
SectionOrders == {p \in [1..4 -> 1..4] : \A i, j \in 1..4 : p[i] = p[j] => i = j}
PermutedDocs ==
  {SectionBlock(p[1], 100) \o SectionBlock(p[2], 100)
     \o SectionBlock(p[3], 100) \o SectionBlock(p[4], 100) : p \in SectionOrders}

\* documents in which the section-1 header occurs twice: only the header
\* repeats, or the whole structure does
FourBlocks(tag) ==
  SectionBlock(1, tag) \o SectionBlock(2, tag) \o SectionBlock(3, tag) \o SectionBlock(4, tag)
RepeatedDocs ==
  {<<h, Line("tx", 101), h, Line("tx", 201)>> : h \in {H1, R1}}
  \cup {FourBlocks(100) \o FourBlocks(200)}

\* canonical documents: "# N. title" headers in increasing order, "## item"
\* lines in the first two sections, with or without a line before the first
\* header
CanonicalBlock(n) ==
  CASE n = 1 -> <<H1, hi, hi, hi>>
    [] n = 2 -> <<H2, hi, hi>>
    [] n = 3 -> <<H3, tx320>>
    [] OTHER -> <<H4, tx60>>
CanonicalDocs ==
  {pre \o (IF 1 \in S THEN CanonicalBlock(1) ELSE <<>>)
       \o (IF 2 \in S THEN CanonicalBlock(2) ELSE <<>>)
       \o (IF 3 \in S THEN CanonicalBlock(3) ELSE <<>>)
       \o (IF 4 \in S THEN CanonicalBlock(4) ELSE <<>>) :
     pre \in {<<>>, <<tx20>>}, S \in (SUBSET (1..4)) \ {{}}}

\* documents with a conclusion in Chinese, in English, and without one
LanguageDocs == {<<H3, tx320, H4, tx60>>, <<H3, tx320, E4, tx60>>, <<H3, tx320>>}

\* formData.language: "中文" (zh), "English" (en)
Languages == {"zh", "en"}

NormInputs == PermutedDocs \cup RepeatedDocs \cup CanonicalDocs \cup LanguageDocs

InitNormalize ==
  /\ FormInit
  /\ StreamIdle
  /\ ToastIdle
  /\ ContIdle
  /\ ProxyIdle
  /\ StoreIdle
  /\ nIn \in NormInputs
  /\ nLang \in Languages
  /\ nOut = <<>>
  /\ nOp = "none"

\* normalizeTopSections(text)
ApplyNormalizeTopSections ==
  /\ nOp = "none"
  /\ nOut' = normalizeTopSections(nIn)
  /\ nOp' = "normalizeTopSections"
  /\ UNCHANGED <<nIn, nLang, orchVars, streamVars, proxyVars, storeVars, toastVars, contVars>>

\* the five calls of the flush at stream end
ApplyEndOfStream ==
  /\ nOp = "none"
  /\ nOut' = EndPipeline(nIn)
  /\ nOp' = "endOfStream"
  /\ UNCHANGED <<nIn, nLang, orchVars, streamVars, proxyVars, storeVars, toastVars, contVars>>

\* the four calls of the live update and of every later re-normalization
ApplyLivePipeline ==
  /\ nOp = "none"
  /\ nOut' = LivePipeline(nIn)
  /\ nOp' = "livePipeline"
  /\ UNCHANGED <<nIn, nLang, orchVars, streamVars, proxyVars, storeVars, toastVars, contVars>>

\* the decision about the targeted conclusion request and the
\* previousContent it sends
ApplyConclusionFillDecision ==
  /\ nOp = "none"
  /\ nOut' = (IF ConclusionFillDue(nIn, TRUE) THEN Trim(nIn) \o ConclusionHeader ELSE <<>>)
  /\ nOp' = "conclusionFill"
  /\ UNCHANGED <<nIn, nLang, orchVars, streamVars, proxyVars, storeVars, toastVars, contVars>>

NextNormalize ==
  \/ ApplyNormalizeTopSections
  \/ ApplyEndOfStream
  \/ ApplyLivePipeline
  \/ ApplyConclusionFillDecision

SpecNormalize == InitNormalize /\ [][NextNormalize]_vars


\* --------------------------------------------------- the fallback notice

\* `当前为兜底内容（${ftLabel}${statusText || ""}）`
ToastMessage(ftLabel, statusText) == <<ftLabel, statusText>>

\* statusText of the call sites: absent, or the status of the meta frame
StatusTexts == {"", "status"}

\* 4000 ms, in seconds
ToastWindow == 4
MaxToastClock == 6
MaxToasts == 3

\* if (lastAt && lastMsg === msg && now - lastAt < 4000) return
Suppressed(clock, msg, t) ==
  clock.lastAt # 0 /\ clock.lastMsg = msg /\ t - clock.lastAt < ToastWindow

\* showFallbackToast(ftLabel, statusText)
showFallbackToast ==
  /\ Len(toasts) < MaxToasts
  /\ \E ftLabel \in FailureTypes, statusText \in StatusTexts :
       LET msg == ToastMessage(ftLabel, statusText) IN
       IF Suppressed(fallbackToastClock, msg, now)
       THEN UNCHANGED <<fallbackToastClock, toasts>>
       ELSE /\ toasts' = Append(toasts, [msg |-> msg, at |-> now])
            /\ fallbackToastClock' = [lastAt |-> now, lastMsg |-> msg]
  /\ UNCHANGED <<now, orchVars, streamVars, proxyVars, storeVars, normVars, contVars>>

\* one second passes
ToastTick ==
  /\ now < MaxToastClock
  /\ now' = now + 1
  /\ UNCHANGED <<fallbackToastClock, toasts, orchVars, streamVars, proxyVars, storeVars, normVars, contVars>>

InitToast == FormInit /\ StreamIdle /\ NormIdle /\ ToastIdle /\ ContIdle /\ ProxyIdle /\ StoreIdle

NextToast == showFallbackToast \/ ToastTick

SpecToast == InitToast /\ [][NextToast]_vars

\* ------------------------------------------------------- handleContinue

\* formData.keyword
CurrentKeyword == "k1"

HistoryItem(id, keyword, out) == [id |-> id, keyword |-> keyword, output |-> out]

\* "---------续写---------"
sep == Line("sp", 15)

\* `${output.trimEnd()}\n\n---------续写---------\n\n`
basePrefix(out) == TrimEnd(out) \o <<bl, sep, bl, bl>>

\* string length: the lines' characters and the newlines between them
StrLength(t) == IF t = <<>> THEN 0 ELSE SumN(t) + Len(t) - 1

\* newText.trim().length < 100
ShortLimit == 100
IsShort(t) == StrLength(Trim(t)) < ShortLimit

\* the text on the page when "continue" is pressed
ContinueOutputs == {<<>>, DocStub, DocFull}

\* what localStorage holds then, latest first
StoredChoices ==
  {<<>>,
   <<HistoryItem(1, "k1", DocFull)>>,
   <<HistoryItem(1, "k1", DocPlain)>>,
   <<HistoryItem(1, "k2", DocFull)>>,
   <<HistoryItem(2, "k1", DocFull), HistoryItem(1, "k1", DocFull)>>,
   <<HistoryItem(2, "k1", DocPlain), HistoryItem(1, "k1", DocFull)>>}

\* frames of the continuation stream
ContinueFrames == ContFrames \cup {[content |-> <<tx320, bl>>, meta |-> FALSE]}
MaxContinueFrames == 2

\* history.find(h => h.keyword === keyword && h.output === output): the
\* position of the first match, 0 when there is none
findLatestByContent(hist, keyword, out) ==
  LET S == {i \in 1..Len(hist) : hist[i].keyword = keyword /\ hist[i].output = out}
  IN IF S = {} THEN 0 ELSE CHOOSE i \in S : \A j \in S : i <= j

\* updateHistoryItem(id, {output}): the item gets the new output and the
\* latest timestamp
updateHistoryItem(hist, i, out) ==
  <<[hist[i] EXCEPT !.output = out]>>
    \o SubSeq(hist, 1, i - 1) \o SubSeq(hist, i + 1, Len(hist))

NewId(hist) == 1 + Len(hist)

\* addToHistory(item)
addToHistoryItem(hist, keyword, out) == <<HistoryItem(NewId(hist), keyword, out)>> \o hist

\* the end of the try block: persist, or "未返回有效内容"
ContinueFinish(nt) ==
  /\ IF nt # <<>>
     THEN LET base == findLatestByContent(stored, CurrentKeyword, cOutput)
              finalOut == StrCat(basePrefix(cOutput), nt)
          IN /\ IF base # 0
                THEN /\ stored' = updateHistoryItem(stored, base, finalOut)
                     /\ cWrites' = Append(cWrites, [op |-> "update", id |-> stored[base].id])
                ELSE /\ stored' = addToHistoryItem(stored, CurrentKeyword, finalOut)
                     /\ cWrites' = Append(cWrites, [op |-> "add", id |-> NewId(stored)])
             /\ UNCHANGED error
     ELSE /\ error' = "E_no_content"
          /\ UNCHANGED <<stored, cWrites>>
  /\ isLoading' = FALSE
  /\ cPc' = "returned"

\* the second fallback is requested when the text is short, else the end;
\* loaded: setIsLoading(false) has just been called
ContinueAfterFallbackLoading(nt, loaded) ==
  IF nt # <<>> /\ IsShort(nt)
  THEN /\ cPc' = "second"
       /\ isLoading' = (IF loaded THEN FALSE ELSE isLoading)
       /\ UNCHANGED <<error, stored, cWrites>>
  ELSE ContinueFinish(nt)

ContinueAfterFallback(nt) == ContinueAfterFallbackLoading(nt, FALSE)

\* the catch of handleContinue
ContinueFail(msg) ==
  /\ error' = msg
  /\ isLoading' = FALSE
  /\ cPc' = "returned"

\* handleContinue: the guards, then the streaming request
handleContinue ==
  /\ cPc = "idle"
  /\ IF output = <<>> \/ hasFallbackMarker(output) \/ formData.model = ""
     THEN /\ cPc' = "returned"
          /\ UNCHANGED <<error, isLoading, cOutput>>
     ELSE /\ error' = "none"
          /\ isLoading' = TRUE
          /\ cOutput' = output
          /\ cPc' = "fetch"
  /\ UNCHANGED <<output, history, formData, pc, locVars, timerVars, logVars, lastResp,
                 lastCallRejected, streamVars, proxyVars, storeVars, normVars, toastVars,
                 cNewText, cHit, cFrames, stored, cWrites>>

\* the streaming request resolves or rejects
ContinueResponse ==
  /\ cPc = "fetch"
  /\ \/ ContinueFail("E_network")
     \/ ContinueFail("E_continue_failed")
     \/ ContinueFail("E_no_reader")
     \/ /\ cPc' = "reading"
        /\ UNCHANGED <<error, isLoading>>
  /\ UNCHANGED <<output, history, formData, pc, locVars, timerVars, logVars, lastResp,
                 lastCallRejected, streamVars, proxyVars, storeVars, normVars, toastVars,
                 cOutput, cNewText, cHit, cFrames, stored, cWrites>>

\* one line of the continuation stream
ContinueReadFrame ==
  /\ cPc = "reading"
  /\ cFrames < MaxContinueFrames
  /\ \E f \in ContinueFrames :
       IF f.meta
       THEN /\ cHit' = TRUE
            /\ UNCHANGED <<cNewText, output, isLoading>>
       ELSE /\ cNewText' = StrCat(cNewText, f.content)
            /\ output' = StrCat(basePrefix(cOutput), cNewText')
            /\ isLoading' = FALSE
            /\ UNCHANGED cHit
  /\ cFrames' = cFrames + 1
  /\ UNCHANGED <<error, history, formData, pc, locVars, timerVars, logVars, lastResp,
                 lastCallRejected, streamVars, proxyVars, storeVars, normVars, toastVars,
                 cPc, cOutput, stored, cWrites>>

\* reader.read() rejects
ContinueReadError ==
  /\ cPc = "reading"
  /\ ContinueFail("E_read")
  /\ UNCHANGED <<output, history, formData, pc, locVars, timerVars, logVars, lastResp,
                 lastCallRejected, streamVars, proxyVars, storeVars, normVars, toastVars,
                 cOutput, cNewText, cHit, cFrames, stored, cWrites>>

\* reader.read() reports done: the line left in the buffer (rem), then the
\* decision about the non-streaming request
ContinueReadDone ==
  /\ cPc = "reading"
  /\ \E rem \in {NoFrame} \cup (IF cFrames < MaxContinueFrames THEN ContinueFrames ELSE {}) :
       /\ cHit' = (cHit \/ rem.meta)
       /\ IF ~rem.meta /\ rem.content # <<>>
          THEN /\ cNewText' = StrCat(cNewText, rem.content)
               /\ output' = StrCat(basePrefix(cOutput), cNewText')
          ELSE UNCHANGED <<cNewText, output>>
       /\ IF cNewText' = <<>> \/ Trim(cNewText') = <<>> \/ cHit'
          THEN /\ cPc' = "nsFallback"
               /\ isLoading' = (IF ~rem.meta /\ rem.content # <<>> THEN FALSE ELSE isLoading)
               /\ UNCHANGED <<error, stored, cWrites>>
          ELSE ContinueAfterFallbackLoading(cNewText', ~rem.meta /\ rem.content # <<>>)
  /\ UNCHANGED <<history, formData, pc, locVars, timerVars, logVars, lastResp,
                 lastCallRejected, streamVars, proxyVars, storeVars, normVars, toastVars,
                 cOutput, cFrames>>

\* the answer to the non-streaming continuation request
ContinueFallbackResponse ==
  /\ cPc = "nsFallback"
  /\ \/ \* rejected, or an error status: swallowed by the inner catch
        /\ ContinueAfterFallback(cNewText)
        /\ UNCHANGED <<output, cNewText>>
     \/ \* local fallback content: notice, then return
        /\ isLoading' = FALSE
        /\ cPc' = "returned"
        /\ UNCHANGED <<output, error, cNewText, stored, cWrites>>
     \/ \* content of the model
        \E c \in {DocConclusion, <<tx320, bl>>} :
          /\ cNewText' = c
          /\ output' = StrCat(basePrefix(cOutput), c)
          /\ ContinueAfterFallbackLoading(c, TRUE)
  /\ UNCHANGED <<history, formData, pc, locVars, timerVars, logVars, lastResp,
                 lastCallRejected, streamVars, proxyVars, storeVars, normVars, toastVars,
                 cOutput, cHit, cFrames>>

\* the answer to the second fallback request
ContinueSecondResponse ==
  /\ cPc = "second"
  /\ \/ \* no content, an error status or a rejection
        /\ ContinueFinish(cNewText)
        /\ UNCHANGED <<output, cNewText>>
     \/ \* data.content, the endpoint's local fallback content included
        \E c \in {DocConclusion, <<tx320, bl>>, DocStub} :
          /\ cNewText' = JoinBlank(cNewText, c)
          /\ output' = StrCat(basePrefix(cOutput), cNewText')
          /\ ContinueFinish(cNewText')
  /\ UNCHANGED <<history, formData, pc, locVars, timerVars, logVars, lastResp,
                 lastCallRejected, streamVars, proxyVars, storeVars, normVars, toastVars,
                 cOutput, cHit, cFrames>>

InitContinue ==
  /\ FormInit
  /\ StreamIdle
  /\ NormIdle
  /\ ToastIdle
  /\ ProxyIdle
  /\ StoreIdle
  /\ cPc = "idle"
  /\ cOutput = <<>>
  /\ cNewText = <<>>
  /\ cHit = FALSE
  /\ cFrames = 0
  /\ stored \in StoredChoices
  /\ cWrites = <<>>

\* the page shows a text (a generation or a history item) before "continue"
ContinuePageText ==
  /\ cPc = "idle"
  /\ output = <<>>
  /\ output' \in ContinueOutputs \ {<<>>}
  /\ UNCHANGED <<isLoading, error, history, formData, pc, locVars, timerVars, logVars,
                 lastResp, lastCallRejected, streamVars, proxyVars, storeVars, normVars, toastVars, contVars>>

NextContinue ==
  \/ ContinuePageText
  \/ handleContinue
  \/ ContinueResponse
  \/ ContinueReadFrame
  \/ ContinueReadError
  \/ ContinueReadDone
  \/ ContinueFallbackResponse
  \/ ContinueSecondResponse

SpecContinue == InitContinue /\ [][NextContinue]_vars

\* ------------------------------------------ the endpoint's streaming proxy
\* start(controller) of the ReadableStream the endpoint returns.  A line of
\* the upstream body either carries content or does not (comments,
\* "[DONE]", invalid JSON, empty deltas).

MaxProxyLines == 4

\* `if (!isClosed)` of enqueueData
CanEnqueueAlways(closed) == TRUE
CanEnqueue(closed) == ~closed

\* enqueueData(content): controller.enqueue throws once the stream is no
\* longer readable (cancelled by the client)
enqueueData ==
  IF CanEnqueue(isClosed)
  THEN /\ lateEnqueue' = (lateEnqueue \/ isClosed \/ closeCalls > 0)
       /\ IF cancelled
          THEN /\ isClosed' = TRUE
               /\ UNCHANGED <<hasEmitted, emitted>>
          ELSE /\ hasEmitted' = TRUE
               /\ emitted' = emitted + 1
               /\ UNCHANGED isClosed
  ELSE UNCHANGED <<isClosed, hasEmitted, emitted, lateEnqueue>>

\* response.body?.getReader(): without a reader the stream is closed at once
ProxyStart ==
  /\ pPc = "start"
  /\ \/ /\ closeCalls' = closeCalls + 1
        /\ pPc' = "done"
     \/ /\ pPc' = "reading"
        /\ UNCHANGED closeCalls
  /\ UNCHANGED <<isClosed, hasEmitted, cancelled, emitted, pLines, lateEnqueue>>
  /\ UNCHANGED <<orchVars, streamVars, normVars, toastVars, contVars, storeVars>>

\* one complete line
ProxyLine ==
  /\ pPc = "reading"
  /\ pLines < MaxProxyLines
  /\ \/ enqueueData
     \/ UNCHANGED <<isClosed, hasEmitted, emitted, lateEnqueue>>
  /\ pLines' = pLines + 1
  /\ UNCHANGED <<pPc, cancelled, closeCalls>>
  /\ UNCHANGED <<orchVars, streamVars, normVars, toastVars, contVars, storeVars>>

\* reader.read() rejects: the outer catch
ProxyReadError ==
  /\ pPc = "reading"
  /\ pPc' = "finally"
  /\ UNCHANGED <<isClosed, hasEmitted, cancelled, closeCalls, emitted, pLines, lateEnqueue>>
  /\ UNCHANGED <<orchVars, streamVars, normVars, toastVars, contVars, storeVars>>

\* reader.read() reports done: the line left in the buffer (rem: it has
\* content), then the decision about the non-streaming request
ProxyReadDone ==
  /\ pPc = "reading"
  /\ \E rem \in BOOLEAN :
       /\ rem => pLines < MaxProxyLines
       /\ IF rem /\ ~isClosed
          THEN /\ enqueueData
               /\ pLines' = pLines + 1
          ELSE UNCHANGED <<isClosed, hasEmitted, emitted, lateEnqueue, pLines>>
  /\ pPc' = (IF ~hasEmitted' /\ ~isClosed' THEN "fallback" ELSE "finally")
  /\ UNCHANGED <<cancelled, closeCalls>>
  /\ UNCHANGED <<orchVars, streamVars, normVars, toastVars, contVars, storeVars>>

\* the non-streaming request resolves with content, without, or rejects
ProxyFallbackResponse ==
  /\ pPc = "fallback"
  /\ \/ enqueueData
     \/ UNCHANGED <<isClosed, hasEmitted, emitted, lateEnqueue>>
  /\ pPc' = "finally"
  /\ UNCHANGED <<cancelled, closeCalls, pLines>>
  /\ UNCHANGED <<orchVars, streamVars, normVars, toastVars, contVars, storeVars>>

\* finally { if (!isClosed) { controller.close(); isClosed = true } }
ProxyFinally ==
  /\ pPc = "finally"
  /\ IF ~isClosed
     THEN /\ closeCalls' = closeCalls + 1
          /\ isClosed' = TRUE
     ELSE UNCHANGED <<closeCalls, isClosed>>
  /\ pPc' = "done"
  /\ UNCHANGED <<hasEmitted, cancelled, emitted, pLines, lateEnqueue>>
  /\ UNCHANGED <<orchVars, streamVars, normVars, toastVars, contVars, storeVars>>

\* the client cancels the response
ProxyCancel ==
  /\ pPc \notin {"start", "done"}
  /\ ~cancelled
  /\ cancelled' = TRUE
  /\ UNCHANGED <<pPc, isClosed, hasEmitted, closeCalls, emitted, pLines, lateEnqueue>>
  /\ UNCHANGED <<orchVars, streamVars, normVars, toastVars, contVars, storeVars>>

InitProxy == FormInit /\ StreamIdle /\ NormIdle /\ ToastIdle /\ ContIdle /\ ProxyIdle /\ StoreIdle

NextProxy ==
  \/ ProxyStart
  \/ ProxyLine
  \/ ProxyReadError
  \/ ProxyReadDone
  \/ ProxyFallbackResponse
  \/ ProxyFinally
  \/ ProxyCancel

SpecProxy == InitProxy /\ [][NextProxy]_vars

\* -------------------------------------------------------- history store
\* localStorage "writingHistory" and the functions over it.  An item is its
\* id, its timestamp and its isFavorite flag; the other fields play no part.

MAX_HISTORY_ITEMS == 20
MaxStoreOps == 2

StoreItem(id, ts, fav) == [id |-> id, timestamp |-> ts, isFavorite |-> fav]

\* history.sort((a, b) => b.timestamp - a.timestamp): stable, latest first
RECURSIVE InsertByTimestamp(_, _)
InsertByTimestamp(x, sorted) ==
  IF sorted = <<>> THEN <<x>>
  ELSE IF Head(sorted).timestamp <= x.timestamp THEN <<x>> \o sorted
  ELSE <<Head(sorted)>> \o InsertByTimestamp(x, Tail(sorted))

RECURSIVE getHistory(_)
getHistory(st) ==
  IF st = <<>> THEN <<>> ELSE InsertByTimestamp(Head(st), getHistory(Tail(st)))

\* .slice(0, MAX_HISTORY_ITEMS)
SliceKeepsAll(h) == h
SliceToMax(h) ==
  SubSeq(h, 1, IF Len(h) < MAX_HISTORY_ITEMS THEN Len(h) ELSE MAX_HISTORY_ITEMS)

\* [newItem, ...history].slice(0, MAX_HISTORY_ITEMS)
addToHistory(st, newItem) == SliceToMax(<<newItem>> \o getHistory(st))

\* history.filter(item => item.id !== id)
deleteHistoryItem(st, id) == SelectSeq(getHistory(st), LAMBDA item : item.id # id)

\* history.map(item => item.id === id ? {...item, isFavorite: !item.isFavorite} : item)
toggleFavorite(st, id) ==
  LET h == getHistory(st)
  IN [i \in 1..Len(h) |->
        IF h[i].id = id THEN [h[i] EXCEPT !.isFavorite = ~h[i].isFavorite] ELSE h[i]]

\* history.map(...): the item gets timestamp Date.now(), in place
updateStoredItem(st, id, ts) ==
  LET h == getHistory(st)
  IN [i \in 1..Len(h) |->
        IF h[i].id = id THEN [h[i] EXCEPT !.timestamp = ts] ELSE h[i]]

HasId(st, id) == \E i \in 1..Len(st) : st[i].id = id

\* a store of n items written latest first, the oldest a favorite or not
InitialStore(n, favOldest) ==
  [i \in 1..n |-> StoreItem(n + 1 - i, n + 1 - i, favOldest /\ i = n)]

InitialSizes == {0, 1, MAX_HISTORY_ITEMS - 1, MAX_HISTORY_ITEMS}

\* the ids the calls are made with: the first and the last stored, and none
StoreTargets(st) == {0} \cup (IF st = <<>> THEN {} ELSE {st[1].id, st[Len(st)].id})

\* localStorage.setItem(...) inside try/catch: ok is FALSE when it throws
StoreWrite(next, ok) == hStore' = (IF ok THEN next ELSE hStore)

StoreAdd ==
  /\ hN < MaxStoreOps
  /\ \E ok \in BOOLEAN, d \in 0..1 :
       /\ hClock' = hClock + d
       /\ StoreWrite(addToHistory(hStore, StoreItem(hNextId, hClock', FALSE)), ok)
       /\ hOp' = [op |-> "add", id |-> hNextId, ok |-> ok]
  /\ hNextId' = hNextId + 1
  /\ hN' = hN + 1
  /\ UNCHANGED <<orchVars, streamVars, normVars, toastVars, contVars, proxyVars>>

StoreDelete ==
  /\ hN < MaxStoreOps
  /\ \E ok \in BOOLEAN, id \in StoreTargets(hStore) :
       /\ StoreWrite(deleteHistoryItem(hStore, id), ok)
       /\ hOp' = [op |-> "delete", id |-> id, ok |-> ok]
  /\ hN' = hN + 1
  /\ UNCHANGED <<hClock, hNextId>>
  /\ UNCHANGED <<orchVars, streamVars, normVars, toastVars, contVars, proxyVars>>

StoreToggle ==
  /\ hN < MaxStoreOps
  /\ \E ok \in BOOLEAN, id \in StoreTargets(hStore) :
       /\ StoreWrite(toggleFavorite(hStore, id), ok)
       /\ hOp' = [op |-> "toggle", id |-> id, ok |-> ok]
  /\ hN' = hN + 1
  /\ UNCHANGED <<hClock, hNextId>>
  /\ UNCHANGED <<orchVars, streamVars, normVars, toastVars, contVars, proxyVars>>

\* updateHistoryItem(id, updates): null, without a write, when no item has the id
StoreUpdate ==
  /\ hN < MaxStoreOps
  /\ \E ok \in BOOLEAN, id \in StoreTargets(hStore), d \in 0..1 :
       /\ hClock' = hClock + d
       /\ IF HasId(hStore, id)
          THEN /\ StoreWrite(updateStoredItem(hStore, id, hClock'), ok)
               /\ hOp' = [op |-> "update", id |-> id, ok |-> ok]
          ELSE /\ UNCHANGED hStore
               /\ hOp' = [op |-> "update", id |-> id, ok |-> FALSE]
  /\ hN' = hN + 1
  /\ UNCHANGED hNextId
  /\ UNCHANGED <<orchVars, streamVars, normVars, toastVars, contVars, proxyVars>>

InitStore ==
  /\ FormInit
  /\ StreamIdle
  /\ NormIdle
  /\ ToastIdle
  /\ ContIdle
  /\ ProxyIdle
  /\ \E n \in InitialSizes, favOldest \in BOOLEAN :
       /\ hStore = InitialStore(n, favOldest)
       /\ hClock = n
       /\ hNextId = n + 1
  /\ hOp = [op |-> "none", id |-> 0, ok |-> TRUE]
  /\ hN = 0

NextStore == StoreAdd \/ StoreDelete \/ StoreToggle \/ StoreUpdate

SpecStore == InitStore /\ [][NextStore]_vars



Next ==
  \/ setFormData
  \/ handleSelectHistory
  \/ handleGenerate
  \/ PrimaryResponse
  \/ ErrRetryResponse
  \/ ReadFrame
  \/ RafCallback
  \/ WatchdogTick
  \/ ReadAbort
  \/ ReadError
  \/ ReadDone
  \/ CheckEmptyOrFallback
  \/ NsFallbackResponse
  \/ DecideAutoComplete
  \/ AutoContResponse
  \/ AutoRetryResponse
  \/ AutoReadFrame
  \/ AutoReadDone
  \/ AutoReadError
  \/ PostProcess
  \/ ConclFillResponse
  \/ DecideRegen
  \/ RegenResponse
  \/ DecideFill
  \/ FillResponse
  \/ DecideBackfill
  \/ BackfillContResponse
  \/ SaveToHistory
  \/ AbortRegenResponse
  \/ AbortSalvageResponse

Spec == Init /\ [][Next]_vars

\* the steps of a running invocation whose fairness ends it: answers of the
\* endpoint, the watchdog and the code between two awaits
Progress ==
  \/ PrimaryResponse
  \/ ErrRetryResponse
  \/ WatchdogTick
  \/ ReadAbort
  \/ CheckEmptyOrFallback
  \/ NsFallbackResponse
  \/ DecideAutoComplete
  \/ AutoContResponse
  \/ AutoRetryResponse
  \/ AutoReadDone
  \/ ConclFillResponse
  \/ DecideRegen
  \/ DecideFill
  \/ FillResponse
  \/ BackfillContResponse
  \/ SaveToHistory
  \/ AbortRegenResponse
  \/ AbortSalvageResponse

\* weak fairness of the step that leaves position p, its enabling condition
\* written out (the step is enabled whenever the invocation is at p)
LeavesEventually(p) == []<>(pc # p) \/ []<><<pc = p /\ pc' # p>>_vars

\* every request is answered, the watchdog runs and synchronous code runs on
SpecLive ==
  /\ Spec
  /\ WF_vars(Progress)
  /\ LeavesEventually("post")
  /\ LeavesEventually("regen")
  /\ LeavesEventually("decideBackfill")

\* ------------------------------------------------------------- properties

Running == pc \notin {"idle", "returned"}
NonStreamReqs == {i \in 1..Len(reqs) : ~reqs[i].stream}
ContinueReqs == {i \in 1..Len(reqs) : reqs[i].cont}

\* C1: while the invocation has its primary stream or a derived request
\* unresolved, the submit, regenerate and continue actions stay disabled.
C1_ButtonsDisabledWhileRunning ==
  pc \in AwaitPcs => (~SubmitEnabled /\ ~RegenerateEnabled)

\* C2: an invocation that ends with non-empty content shown and no error has
\* called addToHistory exactly once, on every path.
C2_ShownContentIsSavedOnce ==
  (pc = "returned" /\ error = "none" /\ output # <<>>) => Len(history) = 1

\* C3: the text finally displayed and saved contains a fallback marker only
\* if some content received from the endpoint contained one.
C3_MarkerOnlyIfReceived ==
  pc = "returned" =>
    ((hasFallbackMarker(output) \/ \E i \in 1..Len(history) : hasFallbackMarker(history[i]))
       => markerReceived)

\* C4: once the accumulated text contains a fallback marker, no further
\* request with isContinue = true is issued in the invocation.
C4_NoContinueAfterMarker ==
  [][(markerSeen' /\ reqs' # reqs) => ~reqs'[Len(reqs')].cont]_vars

\* C5: after a frame with meta.source = "local_fallback_stream", the content
\* of no later frame of the primary stream is appended to the text.
C5_NoAppendAfterFallbackFrame ==
  [][sHit => sText' = sText]_vars

\* the content fields of the well-formed frames without the fallback meta
RECURSIVE ExpectedText(_)
ExpectedText(ids) ==
  IF ids = <<>> THEN <<>>
  ELSE (IF Head(ids) = "meta" THEN <<>> ELSE WireFrameContent(Head(ids)))
       \o ExpectedText(Tail(ids))

\* C6: however the bytes are cut into chunks, and with or without the last
\* delimiter, the reader's text is the concatenation of the content fields
\* of the well-formed non-fallback frames.
C6_TextIndependentOfChunks == sDone => sText = ExpectedText(wireIds)

C6_Witness ==
  /\ sDone
  /\ wireIds = <<"multibyte", "twoLines">>
  /\ Len(wire) < Len(WireOf(wireIds))
  /\ sText = <<"e", "b", "a", "b">>

\* C7: right after the primary stream has ended, one non-streaming request
\* for the same generation is issued iff the text is empty after trimming or
\* a fallback hit was flagged; non-empty content of its answer replaces the
\* text, any other answer leaves the text as it was.
C7_OneNonStreamFallback ==
  [][/\ (pc = "afterStream" =>
           IF Trim(fullText) = <<>> \/ fallbackStreamHit
           THEN reqs' = Append(reqs, Request("nsFallback", FALSE, FALSE))
           ELSE reqs' = reqs /\ pc' # "nsFallback")
     /\ (pc = "nsFallback" =>
           /\ reqs' = reqs
           /\ pc' # "nsFallback"
           /\ fullText' = (IF lastResp'.t = "ok" /\ lastResp'.content # <<>>
                           THEN lastResp'.content ELSE fullText))]_vars

C7_Witness ==
  /\ pc = "decideAuto"
  /\ fallbackStreamHit /\ firstChunkReceived
  /\ Cardinality(NonStreamReqs) = 1
  /\ lastResp.t = "ok" /\ lastResp.content # <<>>
  /\ fullText = lastResp.content

NestedKinds == {"autoCont", "autoRetry", "conclFill", "regen", "fill", "backfillCont"}
NestedPcs == NestedKinds \cup {"autoReading"}
FailedResponse(r) == r.t \in {"reject", "err"}
NestedFailedLast ==
  /\ Len(reqs) > 1
  /\ reqs[Len(reqs)].kind \in NestedKinds
  /\ FailedResponse(lastResp)

C9_SalvageCarriesDisplayedText ==
  pc = "abortSalvage" => lastPrev = output

\* C10: an error caused by a transport failure of the primary stream is
\* shown only after one automatic non-streaming request has been made.
C10_RetryBeforeTransportError ==
  (pc = "returned" /\ error \in {"E_no_reader", "E_read", "E_aborted"})
    => NonStreamReqs # {}


\* C11: while the primary stream is read, the watchdog has aborted exactly
\* when more than 12 seconds have passed since the last accepted content
\* delta (or since the stream's start), so the abort comes with the tick
\* that first sees the excess; and the only step the handler takes from
\* there issues the non-streaming request of the same generation.
C11_WatchdogAbortsThenRegenerates ==
  /\ [](pc = "reading" => (aborted <=> sinceChunk > WatchdogLimit))
  /\ [][(pc = "reading" /\ aborted /\ pc' # "reading")
          => (/\ pc' = "abortRegen"
              /\ reqs' = Append(reqs, Request("abortRegen", FALSE, FALSE)))]_vars

C11_Witness ==
  /\ pc = "abortRegen"
  /\ aborted
  /\ firstChunkReceived
  /\ sinceChunk > WatchdogLimit
  /\ reqs[Len(reqs)] = Request("abortRegen", FALSE, FALSE)


\* C12: the watchdog calls controller.abort() at most once, and once
\* handleGenerate has returned its interval timer is no longer armed.
C12_WatchdogFiresOnceAndIsDisarmed ==
  /\ nAborts <= 1
  /\ pc = "returned" => ~watchdogArmed


UpstreamStatuses == {429, 500, 502, 503, 504}
LocalStatuses == {400, 401, 403, 404}

\* C13: when the primary request and its non-streaming retry both answer
\* with an error status, the message carries the upstream/rate-limit
\* classification exactly when the status is one of 429, 500, 502, 503, 504
\* and the local parameter/config classification when it is one of 400, 401,
\* 403, 404.
C13_ClassificationFollowsStatus ==
  (pc = "returned" /\ primaryStatus # 0 /\ lastResp.t = "err")
    => /\ error = "E_failed_API" <=> primaryStatus \in UpstreamStatuses
       /\ primaryStatus \in LocalStatuses => error = "E_failed_code"


\* C14: whenever handleGenerate ends by reporting an error, the history
\* store was not written during that invocation.
C14_NoHistoryWriteOnError ==
  (pc = "returned" /\ error # "none") => history = <<>>

C14_Witness ==
  /\ pc = "returned"
  /\ error = "E_no_content"
  /\ history = <<>>
  /\ Len(reqs) >= 3


\* the form a handleGenerate call must reject
InvalidForm ==
  \/ formData.model = ""
  \/ formData.kwLen < 2 \/ formData.kwLen > 50
  \/ formData.descLen < 10 \/ formData.descLen > 1000

\* C15: with an empty model, a keyword shorter than 2 or longer than 50
\* characters, or a description shorter than 10 or longer than 1000
\* characters, handleGenerate issues no network request, never sets
\* isLoading and leaves the displayed output unchanged.
C15_InvalidFormIsRejected ==
  /\ [](InvalidForm => (pc = "idle" /\ reqs = <<>> /\ ~isLoading))
  /\ [][(lastCallRejected' /\ ~lastCallRejected)
          => (/\ InvalidForm
              /\ output' = output /\ reqs' = reqs /\ ~isLoading' /\ pc' = "idle")]_vars
  /\ [][(pc = "idle" /\ pc' # "idle") => (~InvalidForm /\ ~lastCallRejected')]_vars

C15_Witness ==
  /\ lastCallRejected
  /\ formData.kwLen > 50
  /\ output # <<>>
  /\ reqs = <<>>


\* the minimum of the selected length tier
TierMinimum ==
  CASE formData.length = "short" -> 300
    [] formData.length = "long" -> 1500
    [] OTHER -> 800

\* the text's last characters are a truncation cue
EndsInTruncationCue(text) == Len(text) > 0 /\ text[Len(text)].k = "el"

\* C16: after the primary phase the auto-continuation request (isContinue,
\* previousContent = the accumulated text) is issued if and only if
\* autoComplete is enabled, the text carries no fallback marker, and it has
\* no Body marker, or no Conclusion marker, or ends in a truncation cue, or
\* counts fewer characters than the minimum of the length tier.
C16_AutoContinuationIffIncomplete ==
  [][pc = "decideAuto" =>
       ((/\ pc' = "autoCont"
         /\ reqs' = Append(reqs, Request("autoCont", TRUE, TRUE))
         /\ lastPrev' = fullText)
        <=> (/\ formData.autoComplete
             /\ ~hasFallbackMarker(fullText)
             /\ \/ ~(\E i \in 1..Len(fullText) : KwBody(fullText[i]))
                \/ ~(\E i \in 1..Len(fullText) : KwConclusion(fullText[i]))
                \/ EndsInTruncationCue(fullText)
                \/ getCharCount(fullText) < TierMinimum))]_vars


\* C17: every request sent with isContinue = true carries a non-empty
\* previousContent, also when the primary stream delivered nothing and the
\* non-streaming retry produced no content.
C17_ContinueCarriesPreviousContent ==
  (reqs # <<>> /\ reqs[Len(reqs)].cont) => lastPrev # <<>>


\* the rounds of the fill loop so far
FillReqs == {i \in 1..Len(reqs) : reqs[i].kind = "fill"}

C19_NoFillRoundOnceComplete ==
  [][(pc = "fill" /\ pc' = "fill" /\ reqs' # reqs) => NeedFill(finalText')]_vars


\* the full regenerations of the post-processing so far
RegenReqs == {i \in 1..Len(reqs) : reqs[i].kind = "regen"}

\* C20: the post-processing issues at most one full non-streaming
\* regeneration request; it is issued only when the text is not a fallback
\* stub and its four-section structure is incomplete, and only after all
\* continuation and fill rounds have finished (no continuation request
\* follows it).
C20_RegenerationIsLastResort ==
  /\ [](Cardinality(RegenReqs) <= 1)
  /\ [][(reqs' # reqs /\ reqs'[Len(reqs')].kind = "regen")
          => (/\ reqs'[Len(reqs')] = Request("regen", FALSE, FALSE)
              /\ ~hasFallbackMarker(finalText)
              /\ ~hasFullStructure(finalText))]_vars
  /\ [][(RegenReqs # {} /\ reqs' # reqs) => ~reqs'[Len(reqs')].cont]_vars


\* the headers of one section in a text
TitleHeaders(t) == {i \in 1..Len(t) : KwTitle(t[i])}
OutlineHeaders(t) == {i \in 1..Len(t) : KwOutline(t[i])}
BodyHeaders(t) == {i \in 1..Len(t) : KwBody(t[i])}

\* C21: after the structural backfill step (applied to a text without
\* fallback marker whose four-section structure is incomplete) the document
\* contains a Title Candidates section, an Outline section and a Body
\* section, each exactly once.
C21_BackfillGivesThreeSections ==
  [][(pc = "decideBackfill" /\ ~hasFullStructure(finalText) /\ ~hasFallbackMarker(finalText))
       => (/\ Cardinality(TitleHeaders(finalText')) = 1
           /\ Cardinality(OutlineHeaders(finalText')) = 1
           /\ Cardinality(BodyHeaders(finalText')) = 1)]_vars


\* C22: with autoComplete disabled no text that handleGenerate leaves in
\* the output or saves to history counts more characters than the maximum
\* of the selected length tier; with autoComplete enabled
\* clampOutputToLength returns its input unchanged.
C22_ClampedWithoutAutoComplete ==
  /\ (pc = "returned" /\ error = "none" /\ ~formData.autoComplete)
       => (/\ getCharCount(output) <= ranges(formData.length).max
           /\ \A i \in 1..Len(history) :
                getCharCount(history[i]) <= ranges(formData.length).max)
  /\ clampOutputToLength(finalText, formData.length, TRUE) = finalText


\* the top-level headers of a text, in order
TopSeq(t) == SelectSeq(t, IsTopAny)

\* the block of section n: its first header and the lines up to the next
\* top-level header
BlockOf(t, n) ==
  LET S == {i \in 1..Len(t) : IsTopN(t[i], n)}
      first == CHOOSE i \in S : \A j \in S : i <= j
      T == {j \in (first + 1)..Len(t) : IsTopAny(t[j])}
      last == IF T = {} THEN Len(t) ELSE (CHOOSE j \in T : \A k \in T : j <= k) - 1
  IN SubSeq(t, first, last)

\* C23: for an input in which a header of each of the four sections
\* occurs, in whatever order, normalizeTopSections returns the four section
\* blocks exactly once each, in the order 1, 2, 3, 4, every block keeping
\* its own lines.
C23_FourSectionsAreOrdered ==
  (nOp = "normalizeTopSections" /\ nIn \in PermutedDocs)
    => (/\ TopSeq(nOut) = <<H1, H2, H3, H4>>
        /\ \A n \in 1..4 : BlockOf(nOut, n) = BlockOf(nIn, n))

\* C24: for a document without fallback marker in which the section-1
\* header occurs twice, the end-of-stream pipeline outputs exactly one
\* section-1 header, at the position of the first occurrence, and none of
\* the lines that followed the second occurrence.
C24_SecondStructureIsDropped ==
  (nOp = "endOfStream" /\ nIn \in RepeatedDocs)
    => (/\ Cardinality({i \in 1..Len(nOut) : IsTop1(nOut[i])}) = 1
        /\ IsTop1(nOut[1])
        /\ \A i \in 1..Len(nOut) : nOut[i].n < 200)

\* C25: for every canonical document the pipeline normalizeTitleCandidates,
\* normalizeOutline, normalizeTopSections, dedupeTopSections returns the
\* document unchanged.
C25_PipelineIsIdempotentOnCanonical ==
  (nOp = "livePipeline" /\ nIn \in CanonicalDocs) => nOut = nIn


\* the section number of a top-level header line
SectionNumber(l) == CASE l.k = "H1" -> 1 [] l.k = "H2" -> 2 [] l.k = "H3" -> 3 [] OTHER -> 4

\* the section numbers of the top-level headers of a text, in order
TopNumbers(t) == [i \in 1..Len(TopSeq(t)) |-> SectionNumber(TopSeq(t)[i])]

\* C26: in every text saved to history the top-level section headers
\* appear in strictly increasing order of their number, none twice.
C26_SavedHeadersIncrease ==
  \A h \in 1..Len(history) :
    \A i, j \in 1..Len(TopNumbers(history[h])) :
      i < j => TopNumbers(history[h])[i] < TopNumbers(history[h])[j]


\* the frames of a stream whose payload is valid JSON, [DONE] or absent
IsWellFormed(id) == id # "bad"
WellFormedIds(ids) == SelectSeq(ids, IsWellFormed)

HasBadFrame(ids) == \E i \in 1..Len(ids) : ids[i] = "bad"

\* C30: in a stream with a frame whose payload is not valid JSON, the
\* accumulated text is at every moment a prefix of the contents of the
\* well-formed frames in order, and at stream end it is all of them: the
\* bad frame adds nothing and the frames after it still contribute.
C30_BadFrameIsSkipped ==
  HasBadFrame(wireIds)
    => (/\ Len(sText) <= Len(ExpectedText(WellFormedIds(wireIds)))
        /\ sText = SubSeq(ExpectedText(WellFormedIds(wireIds)), 1, Len(sText))
        /\ sDone => sText = ExpectedText(WellFormedIds(wireIds)))

C30_Witness ==
  /\ sDone
  /\ wireIds = <<"bad", "twoLines">>
  /\ wire = WireOf(wireIds)
  /\ sText = <<"a", "b">>


\* C28: during the primary stream at most one throttled update is pending;
\* when the stream has ended none is pending any more and the output is the
\* end-of-stream normalization of the complete accumulated text.
C28_OnePendingUpdateThenFlush ==
  /\ rafScheduled <= 1
  /\ pc = "afterStream"
       => (/\ rafScheduled = 0
           /\ output = EndPipeline(fullText))

C28_Witness ==
  /\ pc = "afterStream"
  /\ nFrames >= 2
  /\ rafScheduled = 0
  /\ output = EndPipeline(fullText)
  /\ output # LivePipeline(fullText)


\* the history write the claim expects of an invocation with text: an update
\* of the latest item with the current keyword and the output before the
\* continuation, else an add
ExpectedWrite(hist, out) ==
  LET S == {i \in 1..Len(hist) :
              hist[i].keyword = CurrentKeyword /\ hist[i].output = out}
  IN IF S = {} THEN [op |-> "add", id |-> 1 + Len(hist)]
     ELSE [op |-> "update", id |-> hist[CHOOSE i \in S : \A j \in S : i <= j].id]

\* C27: an invocation of handleContinue that ends with non-empty
\* continuation text has performed exactly one history write, the expected
\* update or add; one that ends without text has performed none.
C27_OneHistoryWritePerContinuation ==
  [][(cPc # "returned" /\ cPc' = "returned")
       => IF cNewText' # <<>>
          THEN cWrites' = <<ExpectedWrite(stored, cOutput)>>
          ELSE cWrites' = <<>>]_vars

\* C29: two notices with the same message are never displayed less than
\* four seconds apart.
C29_OneNoticePerMessagePerWindow ==
  \A i, j \in 1..Len(toasts) :
    (i < j /\ toasts[i].msg = toasts[j].msg) => toasts[j].at - toasts[i].at >= ToastWindow


\* C34: with autoComplete disabled no request of handleGenerate carries
\* isContinue = true.
C34_NoContinueWithoutAutoComplete ==
  ~formData.autoComplete => \A i \in 1..Len(reqs) : ~reqs[i].cont

\* C35: one invocation issues at most nine requests and, when every
\* pending request is answered and every timer runs, it returns with
\* isLoading false.
C35_BoundedRequestsAndTermination ==
  /\ [](Len(reqs) <= 9)
  /\ [](Running => <>(pc = "returned" /\ ~isLoading))

C35_Witness ==
  /\ pc = "returned"
  /\ Len(reqs) = 9
  /\ ~isLoading



\* hasConclusion of isLikelyIncomplete: the Conclusion marker of a language
HasConclusionMarker(lang, t) ==
  \/ lang = "zh" /\ \E i \in 1..Len(t) : t[i].k \in {"R4", "H4"}
  \/ lang = "en" /\ \E i \in 1..Len(t) : t[i].k = "E4"

\* C36: the targeted conclusion-fill request is issued only for a text
\* without Conclusion marker in the configured output language.
C36_ConclusionFillOnlyWithoutConclusion ==
  (nOp = "conclusionFill" /\ nOut # <<>>) => ~HasConclusionMarker(nLang, nIn)


StartsAtMarker(t) == t # <<>> /\ LineHasMarker(t[1])

C33_ContinueWritesNoMarker ==
  cOutput # <<>> =>
    /\ ~hasFallbackMarker(output)
    /\ \A i \in 1..Len(stored) : ~hasFallbackMarker(stored[i].output)


\* C31: at the end of a byte stream the nested readers (auto-continuation,
\* handleContinue) have extracted the same content as the primary reader.
C31_NestedReadersAgreeWithPrimary ==
  sDone => (autoText = sText /\ contText = sText)


\* C37: the proxy calls controller.close() at most once, never calls
\* controller.enqueue once the stream is closed, and makes the non-streaming
\* request only when no content frame was emitted.
C37_ProxyClosesOnceAndFallsBackWhenEmpty ==
  /\ closeCalls <= 1
  /\ ~lateEnqueue
  /\ (closeCalls = 1 => pPc = "done")
  /\ (pPc = "fallback" => (emitted = 0 /\ ~isClosed))

C37_Witness ==
  /\ pPc = "done"
  /\ closeCalls = 1
  /\ emitted = MaxProxyLines
  /\ cancelled


\* this step is a call of the store function op
IsCall(op) == hN' = hN + 1 /\ hOp'.op = op

ItemsOf(st) == {st[i] : i \in 1..Len(st)}

\* the new item is stored first, the items no longer stored are as many as
\* the limit requires and none of them is newer than an item still stored
AddKeepsNewDropsOldest ==
  LET old == ItemsOf(hStore)
      kept == old \cap ItemsOf(hStore')
      dropped == old \ kept
      excess == Len(hStore) + 1 - MAX_HISTORY_ITEMS
  IN /\ hStore' # <<>> /\ hStore'[1].id = hOp'.id
     /\ ItemsOf(hStore') = kept \cup {hStore'[1]}
     /\ Cardinality(dropped) = (IF excess > 0 THEN excess ELSE 0)
     /\ \A x \in dropped, y \in kept : x.timestamp <= y.timestamp

====
